---- MODULE Spec2Model ----
(***************************************************************************)
(* A model of codecrafters-git-rust: the loose-object codec and the        *)
(* repository commands of src/src/git.rs, the pack decoder of              *)
(* src/src/git/pack.rs, the smart-HTTP client of src/src/git/remote.rs and *)
(* the clone command of src/src/main.rs.                                   *)
(*                                                                         *)
(* Bytes are the integers 0..255, byte strings and Rust strings are        *)
(* sequences of bytes, a path is a sequence of path components.            *)
(***************************************************************************)
EXTENDS Integers, Sequences, FiniteSets, TLC

VARIABLES
    fs,      \* the file system: path -> [kind, content, mode]
    umask,   \* the file-mode creation mask of the processes
    last,    \* the last command or call that ran, with its arguments and result
    ledger,  \* history: (kind, content) -> what its first serialize returned and wrote
    steps,   \* number of commands run so far
    seen,    \* the hashes the commands have printed, each with what it names
    pk,      \* the last pack::parse / patch_content call and its result
    cl,      \* the clone process: its position and what it holds
    net,     \* the HTTP requests sent so far, in order
    writers  \* the processes inside Object::serialize: position, file and offset

vars == <<fs, umask, last, ledger, steps, seen, pk, cl, net, writers>>

----------------------------------------------------------------------------
(* Numbers and bits *)

RECURSIVE Pow2(_)
Pow2(n) == IF n = 0 THEN 1 ELSE 2 * Pow2(n - 1)

RECURSIVE BitAnd(_, _)
BitAnd(a, b) ==
    IF a = 0 \/ b = 0 THEN 0
    ELSE (a % 2) * (b % 2) + 2 * BitAnd(a \div 2, b \div 2)

RECURSIVE BitOr(_, _)
BitOr(a, b) ==
    IF a = 0 THEN b
    ELSE IF b = 0 THEN a
    ELSE (IF a % 2 = 1 \/ b % 2 = 1 THEN 1 ELSE 0) + 2 * BitOr(a \div 2, b \div 2)

Shl(a, n) == a * Pow2(n)
Shr(a, n) == a \div Pow2(n)

\* the complement of a mode mask within the twelve permission bits
NotMask(m) == \o7777 - BitAnd(m, \o7777)

----------------------------------------------------------------------------
(* Sequences *)

Last(s) == s[Len(s)]
Front(s) == SubSeq(s, 1, Len(s) - 1)
Drop(s, n) == SubSeq(s, n + 1, Len(s))
Take(s, n) == SubSeq(s, 1, n)

RECURSIVE Concat(_)
Concat(ss) == IF ss = <<>> THEN <<>> ELSE Head(ss) \o Concat(Tail(ss))

\* index of the first element equal to b, 0 when there is none
Position(s, b) ==
    LET hits == {i \in 1..Len(s) : s[i] = b}
    IN  IF hits = {} THEN 0 ELSE CHOOSE i \in hits : \A j \in hits : i <= j

\* the sum of term(i) for i in lo..hi, modulo m
RECURSIVE SumMod(_, _, _, _)
SumMod(term(_), lo, hi, m) ==
    IF lo > hi THEN 0
    ELSE IF lo = hi THEN term(lo) % m
    ELSE LET mid == (lo + hi) \div 2
         IN  (SumMod(term, lo, mid, m) + SumMod(term, mid + 1, hi, m)) % m

IsPrefix(p, s) == Len(p) <= Len(s) /\ SubSeq(s, 1, Len(p)) = p

\* str::contains / str::find on byte strings
Contains(s, pat) ==
    \E i \in 0..(Len(s) - Len(pat)) : SubSeq(s, i + 1, i + Len(pat)) = pat

\* lexicographic order of byte strings (Ord for OsString / [u8])
RECURSIVE BytesLess(_, _)
BytesLess(a, b) ==
    IF b = <<>> THEN FALSE
    ELSE IF a = <<>> THEN TRUE
    ELSE IF a[1] # b[1] THEN a[1] < b[1]
    ELSE BytesLess(Tail(a), Tail(b))

\* all byte strings over alphabet A of length at most n
RECURSIVE SeqsUpTo(_, _)
SeqsUpTo(A, n) ==
    IF n = 0 THEN {<<>>}
    ELSE LET shorter == SeqsUpTo(A, n - 1)
         IN  shorter \cup {Append(s, a) : s \in shorter, a \in A}

----------------------------------------------------------------------------
(* Text conversions *)

DigitChar(d) == IF d < 10 THEN 48 + d ELSE 87 + d      \* '0'..'9', 'a'..'f'

\* format!("{}") / to_string / {:o} / {:x} of an unsigned number
RECURSIVE ToRadix(_, _)
ToRadix(n, radix) ==
    IF n < radix THEN <<DigitChar(n)>>
    ELSE Append(ToRadix(n \div radix, radix), DigitChar(n % radix))
ToDecimal(n) == ToRadix(n, 10)
ToOctal(n) == ToRadix(n, 8)

\* format!("{:04x}")
Hex4(n) ==
    LET h == ToRadix(n, 16)
    IN  IF Len(h) >= 4 THEN h ELSE [i \in 1..(4 - Len(h)) |-> 48] \o h

\* value of one digit character, -1 when it is no digit
DigitValue(c) ==
    IF c \in 48..57 THEN c - 48
    ELSE IF c \in 97..122 THEN c - 87
    ELSE IF c \in 65..90 THEN c - 55
    ELSE -1

RECURSIVE DigitsValue(_, _, _)
DigitsValue(s, radix, acc) ==
    IF s = <<>> THEN acc
    ELSE DigitsValue(Tail(s), radix, acc * radix + DigitValue(s[1]))

\* u32::from_str_radix / usize::from_str_radix: an optional '+', then digits
from_str_radix(s, radix) ==
    LET digits == IF s # <<>> /\ s[1] = 43 THEN Tail(s) ELSE s
        valid  == /\ digits # <<>>
                  /\ \A i \in 1..Len(digits) :
                         DigitValue(digits[i]) >= 0 /\ DigitValue(digits[i]) < radix
    IN  IF valid THEN [ok |-> TRUE, value |-> DigitsValue(digits, radix, 0)]
        ELSE [ok |-> FALSE, value |-> 0]

\* hex::encode
hex_encode(bytes) ==
    [i \in 1..(2 * Len(bytes)) |->
        IF i % 2 = 1 THEN DigitChar(bytes[(i + 1) \div 2] \div 16)
        ELSE DigitChar(bytes[i \div 2] % 16)]

\* hex::decode
hex_decode(s) ==
    IF /\ Len(s) % 2 = 0
       /\ \A i \in 1..Len(s) : DigitValue(s[i]) >= 0 /\ DigitValue(s[i]) < 16
    THEN [ok |-> TRUE,
          bytes |-> [i \in 1..(Len(s) \div 2) |->
                        DigitValue(s[2 * i - 1]) * 16 + DigitValue(s[2 * i])]]
    ELSE [ok |-> FALSE, bytes |-> <<>>]

----------------------------------------------------------------------------
(* Program constants and literals *)

HASH_SIZE == 20
HASH_HEX_SIZE == 40
DIRECTORY_MODE == \o40000

KindBlob == <<98, 108, 111, 98>>                        \* "blob"
KindTree == <<116, 114, 101, 101>>                      \* "tree"
KindCommit == <<99, 111, 109, 109, 105, 116>>           \* "commit"
KindTag == <<116, 97, 103>>                             \* "tag"
Kinds == {KindBlob, KindTree, KindCommit, KindTag}

DotGit == <<46, 103, 105, 116>>                         \* ".git"
ObjectsName == <<111, 98, 106, 101, 99, 116, 115>>      \* "objects"
RefsName == <<114, 101, 102, 115>>                      \* "refs"
HeadsName == <<104, 101, 97, 100, 115>>                 \* "heads"
MasterName == <<109, 97, 115, 116, 101, 114>>           \* "master"
HeadName == <<72, 69, 65, 68>>                          \* "HEAD"
\* "ref: refs/heads/master\n"
HeadContent == <<114, 101, 102, 58, 32, 114, 101, 102, 115, 47, 104, 101, 97,
                 100, 115, 47, 109, 97, 115, 116, 101, 114, 10>>

----------------------------------------------------------------------------
(* The digest and the compression codec (external crates sha1 and flate2) *)

\* The digest is modelled by a position-weighted residue written into
\* HASH_SIZE bytes: it depends on every byte, on its position and on the
\* length of the input, and changing one byte always changes it.
DigestWeight(i) == (i * i * 8191 + i * 127 + 1) % 8354999
Sha1(data) ==
    LET term(i) == (data[i] + 1) * DigestWeight(i)
        h == (SumMod(term, 1, Len(data), 8354999) + Len(data) * 65537) % 8354999
    IN  [i \in 1..(HASH_SIZE - 3) |-> 0]
            \o <<h \div 65536, (h \div 256) % 256, h % 256>>

\* the check byte of a compressed stream
ByteSum(data) ==
    LET term(i) == data[i]
    IN  (1 + SumMod(term, 1, Len(data), 251)) % 251

\* A zlib stream is modelled as a stored block: two header bytes, the
\* little-endian length, the data and a check byte.  It is self-delimiting,
\* as a zlib stream is.
ZlibEncode(data) ==
    <<120, 218, Len(data) % 256, Len(data) \div 256>> \o data \o <<ByteSum(data)>>

\* ZlibDecoder::read_to_end with total_in: the data of the stream at the
\* start of input and the number of input bytes it occupies
ZlibDecode(input) ==
    LET bad == [ok |-> FALSE, data |-> <<>>, total_in |-> 0]
    IN  IF Len(input) < 5 \/ input[1] # 120 \/ input[2] # 218 THEN bad
        ELSE LET n == input[3] + 256 * input[4]
             IN  IF Len(input) < 5 + n THEN bad
                 ELSE LET data == SubSeq(input, 5, 4 + n)
                      IN  IF input[5 + n] # ByteSum(data) THEN bad
                          ELSE [ok |-> TRUE, data |-> data, total_in |-> 5 + n]

----------------------------------------------------------------------------
(* The file system (std::fs) *)

S_IFREG == \o100000
DirNode == [kind |-> "dir", content |-> <<>>, mode |-> DIRECTORY_MODE]
FileNode(content, mode) == [kind |-> "file", content |-> content, mode |-> mode]

IsDir(f, p) == p \in DOMAIN f /\ f[p].kind = "dir"
IsFile(f, p) == p \in DOMAIN f /\ f[p].kind = "file"
Put(f, p, node) == [q \in DOMAIN f \cup {p} |-> IF q = p THEN node ELSE f[q]]

\* fs::create_dir_all
RECURSIVE fs_create_dir_all(_, _)
fs_create_dir_all(f, p) ==
    IF IsDir(f, p) THEN [ok |-> TRUE, fs |-> f]
    ELSE IF p \in DOMAIN f \/ p = <<>> THEN [ok |-> FALSE, fs |-> f]
    ELSE LET up == fs_create_dir_all(f, Front(p))
         IN  IF up.ok THEN [ok |-> TRUE, fs |-> Put(up.fs, p, DirNode)] ELSE up

\* fs::create_dir
fs_create_dir_existing_too(f, p) ==
    IF IsDir(f, p) THEN [ok |-> TRUE, fs |-> f]
    ELSE IF p \notin DOMAIN f /\ p # <<>> /\ IsDir(f, Front(p))
    THEN [ok |-> TRUE, fs |-> Put(f, p, DirNode)]
    ELSE [ok |-> FALSE, fs |-> f]
fs_create_dir(f, p) ==
    IF p \notin DOMAIN f /\ p # <<>> /\ IsDir(f, Front(p))
    THEN [ok |-> TRUE, fs |-> Put(f, p, DirNode)]
    ELSE [ok |-> FALSE, fs |-> f]

\* OpenOptions::new().write(true).create(true).truncate(true).mode(mode)
\* .open(p)?.write_all(content): a new file gets mode & ~umask, an existing
\* one keeps its mode
open_write(f, um, p, mode, content) ==
    IF p = <<>> \/ ~IsDir(f, Front(p)) \/ IsDir(f, p)
    THEN [ok |-> FALSE, fs |-> f]
    ELSE LET m == IF p \in DOMAIN f THEN f[p].mode
                  ELSE S_IFREG + BitAnd(mode % \o10000, NotMask(um))
         IN  [ok |-> TRUE, fs |-> Put(f, p, FileNode(content, m))]

\* fs::File::create(p)?.write_all(content), fs::write(p, content)
fs_write(f, um, p, content) == open_write(f, um, p, \o666, content)

----------------------------------------------------------------------------
(* The object codec (src/src/git.rs) *)

\* Object::new
Object_new(kind, content) ==
    [header |-> kind \o <<32>> \o ToDecimal(Len(content)), content |-> content]

\* the kind of an object: header.split(' ').next()
HeaderKind(header) ==
    LET i == Position(header, 32)
    IN  IF i = 0 THEN header ELSE Take(header, i - 1)

Object_hash_content_only(o) == Sha1(o.content)
\* Object::hash
Object_hash(o) == Sha1(o.header \o <<0>> \o o.content)

\* object_path
object_path(hash) ==
    IF Len(hash) # HASH_HEX_SIZE
    THEN [ok |-> FALSE, path |-> <<>>]
    ELSE [ok |-> TRUE,
          path |-> <<DotGit, ObjectsName, Take(hash, 2), Drop(hash, 2)>>]

\* Object::serialize
Object_serialize(f, um, o) ==
    LET failed(g) == [ok |-> FALSE, hash |-> <<>>, fs |-> g]
        written(hash, made, wrote) ==
            IF ~wrote.ok THEN failed(made.fs)
            ELSE [ok |-> TRUE, hash |-> hash, fs |-> wrote.fs]
        in_directory(hash, filepath, made) ==
            IF ~made.ok THEN failed(f)
            ELSE written(hash, made,
                         fs_write(made.fs, um, filepath.path,
                                  ZlibEncode(o.header \o <<0>> \o o.content)))
        at_path(hash, filepath) ==
            IF ~filepath.ok THEN failed(f)
            ELSE in_directory(hash, filepath, fs_create_dir_all(f, Front(filepath.path)))
        with_hash(hash) == at_path(hash, object_path(hex_encode(hash)))
    IN  with_hash(Object_hash(o))

NoObject == [header |-> <<>>, content |-> <<>>]

from_hash_split_at_last_nul(f, hash) ==
    LET failed(e) == [ok |-> FALSE, err |-> e, object |-> NoObject]
        split(data, ends) ==
            IF ends = {} THEN failed("Header not found")
            ELSE LET e == CHOOSE i \in ends : \A j \in ends : j <= i
                 IN  [ok |-> TRUE, err |-> "",
                      object |-> [header |-> Take(data, e - 1),
                                  content |-> Drop(data, e)]]
        read_to_end(decoded) ==
            IF ~decoded.ok THEN failed("io")
            ELSE split(decoded.data,
                       {i \in 1..Len(decoded.data) : decoded.data[i] = 0})
        open(filepath) ==
            IF ~filepath.ok THEN failed("Invalid hash length")
            ELSE IF ~IsFile(f, filepath.path) THEN failed("No such file or directory")
            ELSE read_to_end(ZlibDecode(f[filepath.path].content))
    IN  open(object_path(hash))

\* Object::from_hash
Object_from_hash(f, hash) ==
    LET failed(e) == [ok |-> FALSE, err |-> e, object |-> NoObject]
        split(data, header_end_index) ==
            IF header_end_index = 0 THEN failed("Header not found")
            ELSE [ok |-> TRUE, err |-> "",
                  object |-> [header |-> Take(data, header_end_index - 1),
                              content |-> Drop(data, header_end_index)]]
        read_to_end(decoded) ==
            IF ~decoded.ok THEN failed("io")
            ELSE split(decoded.data, Position(decoded.data, 0))
        open(filepath) ==
            IF ~filepath.ok THEN failed("Invalid hash length")
            ELSE IF ~IsFile(f, filepath.path) THEN failed("No such file or directory")
            ELSE read_to_end(ZlibDecode(f[filepath.path].content))
    IN  open(object_path(hash))

----------------------------------------------------------------------------
(* Trees, commits and the working tree (src/src/git.rs) *)

\* read_field: the bytes up to the separator; the last byte read is dropped
\* whether or not it is the separator.  Fields of the inputs are ASCII.
read_field(data, separator) ==
    LET at == Position(data, separator)
        taken == IF at = 0 THEN data ELSE Take(data, at)
        field == IF taken = <<>> THEN <<>> ELSE Front(taken)
    IN  [ok |-> \A i \in 1..Len(field) : field[i] < 128,
         field |-> field,
         rest |-> Drop(data, Len(taken))]

\* parse_tree: entries are [mode, name, hash]
RECURSIVE parse_tree_loop(_, _)
parse_tree_loop(data, entries) ==
    LET failed(e) == [ok |-> FALSE, err |-> e, entries |-> <<>>]
        with_name(mode, name) ==
            IF ~name.ok THEN failed("Failed to read field")
            ELSE IF Len(name.rest) < HASH_SIZE THEN failed("io")
            ELSE parse_tree_loop(
                     Drop(name.rest, HASH_SIZE),
                     Append(entries, [mode |-> mode.value,
                                      name |-> name.field,
                                      hash |-> Take(name.rest, HASH_SIZE)]))
        with_mode(mode_field, mode) ==
            IF ~mode.ok THEN failed("Failed to read file mode")
            ELSE with_name(mode, read_field(mode_field.rest, 0))
        with_mode_field(mode_field) ==
            IF ~mode_field.ok THEN failed("Failed to read field")
            ELSE with_mode(mode_field, from_str_radix(mode_field.field, 8))
    IN  IF data = <<>> THEN [ok |-> TRUE, err |-> "", entries |-> entries]
        ELSE with_mode_field(read_field(data, 32))
parse_tree(data) == parse_tree_loop(data, <<>>)

TreePrefix == <<116, 114, 101, 101, 32>>                \* "tree "

\* parse_commit: the text of the tree line
parse_commit(content) ==
    IF ~IsPrefix(TreePrefix, content)
    THEN [ok |-> FALSE, err |-> "commit does not start with the tree line", tree |-> <<>>]
    ELSE LET rest == Drop(content, Len(TreePrefix))
             nl == Position(rest, 10)
             line == IF nl = 0 THEN rest ELSE Take(rest, nl - 1)
         IN  IF \A i \in 1..Len(line) : line[i] < 128
             THEN [ok |-> TRUE, err |-> "", tree |-> line]
             ELSE [ok |-> FALSE, err |-> "utf8", tree |-> <<>>]

\* Object::parse: a ParsedObject, or an error
Object_parse(o) ==
    LET kind == HeaderKind(o.header)
        none == [ok |-> FALSE, err |-> "", variant |-> "", blob |-> <<>>,
                 commit |-> <<>>, tree |-> <<>>]
        commit_of(c) ==
            IF c.ok
            THEN [none EXCEPT !.ok = TRUE, !.variant = "Commit", !.commit = c.tree]
            ELSE [none EXCEPT !.err = c.err]
        tree_of(t) ==
            IF t.ok
            THEN [none EXCEPT !.ok = TRUE, !.variant = "Tree", !.tree = t.entries]
            ELSE [none EXCEPT !.err = t.err]
    IN  CASE kind = KindBlob ->
               [none EXCEPT !.ok = TRUE, !.variant = "Blob", !.blob = o.content]
          [] kind = KindCommit -> commit_of(parse_commit(o.content))
          [] kind = KindTag -> [none EXCEPT !.ok = TRUE, !.variant = "Tag"]
          [] kind = KindTree -> tree_of(parse_tree(o.content))
          [] OTHER -> [none EXCEPT !.err = "Unsupported object type"]

\* Object::from_hash(hash)?.parse()?
LoadParsed(f, hash) ==
    LET parse(loaded) ==
            IF loaded.ok THEN Object_parse(loaded.object)
            ELSE [ok |-> FALSE, err |-> loaded.err, variant |-> "", blob |-> <<>>,
                  commit |-> <<>>, tree |-> <<>>]
    IN  parse(Object_from_hash(f, hash))

\* blobify
blobify(f, um, filepath) ==
    IF ~IsFile(f, filepath) THEN [ok |-> FALSE, hash |-> <<>>, fs |-> f]
    ELSE Object_serialize(f, um, Object_new(KindBlob, f[filepath].content))

\* the names directory.read_dir() yields, in the order it yields them: the
\* order is the file system's, and one of EnumerationOrders here
Children(f, directory) ==
    {p[Len(p)] : p \in {q \in DOMAIN f : Len(q) = Len(directory) + 1
                                          /\ Front(q) = directory}}
RECURSIVE Descending(_)
Descending(names) ==
    IF names = {} THEN <<>>
    ELSE LET top == CHOOSE n \in names : \A m \in names : m = n \/ BytesLess(m, n)
         IN  <<top>> \o Descending(names \ {top})
Reversed(s) == [i \in 1..Len(s) |-> s[Len(s) + 1 - i]]
\* neighbours exchanged pairwise: a, b, c is listed as b, a, c
PairsSwapped(s) ==
    [i \in 1..Len(s) |-> IF i % 2 = 1 THEN (IF i < Len(s) THEN s[i + 1] ELSE s[i])
                                      ELSE s[i - 1]]
EnumerationOrders == {"descending", "ascending", "pairs-swapped"}
read_dir(f, directory, order) ==
    IF order = "descending" THEN Descending(Children(f, directory))
    ELSE IF order = "ascending" THEN Reversed(Descending(Children(f, directory)))
    ELSE PairsSwapped(Reversed(Descending(Children(f, directory))))

\* entries.sort_by_key(|e| e.file_name()): a stable insertion sort
sort_by_key_unsorted(names) == names

RECURSIVE InsertSorted(_, _)
InsertSorted(sorted, name) ==
    IF sorted = <<>> THEN <<name>>
    ELSE IF BytesLess(name, sorted[1]) THEN <<name>> \o sorted
    ELSE <<sorted[1]>> \o InsertSorted(Tail(sorted), name)
RECURSIVE sort_by_key(_)
sort_by_key(names) ==
    IF names = <<>> THEN <<>>
    ELSE InsertSorted(sort_by_key(Front(names)), Last(names))

RECURSIVE write_tree(_, _, _, _)
RECURSIVE build_tree_entries(_, _, _, _, _, _)

\* build_tree_content: the map over the sorted entries, stopping at the
\* first error
build_tree_entries(f, um, directory, order, names, content) ==
    LET entry(path, made) ==
            IF ~made.ok THEN [ok |-> FALSE, content |-> <<>>, fs |-> made.fs]
            ELSE build_tree_entries(made.fs, um, directory, order, Tail(names),
                     content
                       \o ToOctal(IF IsDir(f, path) THEN DIRECTORY_MODE ELSE f[path].mode)
                       \o <<32>> \o names[1] \o <<0>> \o made.hash)
        visit(path) ==
            entry(path, IF IsDir(f, path) THEN write_tree(f, um, path, order)
                        ELSE blobify(f, um, path))
    IN  IF names = <<>> THEN [ok |-> TRUE, content |-> content, fs |-> f]
        ELSE visit(Append(directory, names[1]))

\* build_tree_content
build_tree_content(f, um, directory, order) ==
    LET listed == read_dir(f, directory, order)
        kept == SelectSeq(listed,
                    LAMBDA n : ~(IsDir(f, Append(directory, n)) /\ n = DotGit))
    IN  build_tree_entries(f, um, directory, order, sort_by_key(kept), <<>>)

\* write_tree
write_tree(f, um, directory, order) ==
    LET store(built) ==
            IF ~built.ok THEN [ok |-> FALSE, hash |-> <<>>, fs |-> built.fs]
            ELSE Object_serialize(built.fs, um, Object_new(KindTree, built.content))
    IN  store(build_tree_content(f, um, directory, order))

MasterRef == <<DotGit, RefsName, HeadsName, MasterName>>

\* the commit body that commit formats
CommitContent(tree, parent, message, now) ==
    LET timestamp == ToDecimal(now) \o <<32, 43, 48, 48, 48, 48>>     \* " +0000"
    IN  TreePrefix \o hex_encode(tree) \o <<10>>
          \o <<112, 97, 114, 101, 110, 116, 32>> \o hex_encode(parent) \o <<10>>
          \o <<97, 117, 116, 104, 111, 114, 32, 65, 110, 111, 110, 121, 109, 111,
               117, 115, 32>> \o timestamp \o <<10>>
          \o <<99, 111, 109, 109, 105, 116, 116, 101, 114, 32, 65, 110, 111, 110,
               121, 109, 111, 117, 115, 32>> \o timestamp \o <<10>>
          \o <<10>> \o message \o <<10>>

\* commit: the object is written, then refs/heads/master
commit(f, um, tree, parent, message, now) ==
    LET updated(object, wrote) ==
            [ok |-> wrote.ok, hash |-> object.hash, fs |-> wrote.fs]
        stored(object) ==
            IF ~object.ok THEN object
            ELSE updated(object, fs_write(object.fs, um, MasterRef,
                                          hex_encode(object.hash) \o <<10>>))
    IN  stored(Object_serialize(f, um,
                   Object_new(KindCommit, CommitContent(tree, parent, message, now))))

\* parse_hash
parse_hash(hash) ==
    IF Len(hash) # HASH_HEX_SIZE THEN [ok |-> FALSE, bytes |-> <<>>]
    ELSE hex_decode(hash)

\* init: the directories are made under path, which becomes the current
\* directory of the process
init(f, um, path) ==
    LET failed(g) == [ok |-> FALSE, fs |-> g, cwd |-> path]
        with_head(head) == [ok |-> head.ok, fs |-> head.fs, cwd |-> path]
        with_refs(refs) ==
            IF ~refs.ok THEN failed(refs.fs)
            ELSE with_head(fs_write(refs.fs, um, path \o <<DotGit, HeadName>>,
                                    HeadContent))
        with_objects(objects) ==
            IF ~objects.ok THEN failed(objects.fs)
            ELSE with_refs(fs_create_dir(objects.fs, path \o <<DotGit, RefsName>>))
        with_git(git) ==
            IF ~git.ok THEN failed(git.fs)
            ELSE with_objects(fs_create_dir(git.fs, path \o <<DotGit, ObjectsName>>))
        in_path(there) ==
            IF ~there.ok \/ ~IsDir(there.fs, path) THEN failed(there.fs)
            ELSE with_git(fs_create_dir(there.fs, Append(path, DotGit)))
    IN  in_path(IF path \in DOMAIN f THEN [ok |-> TRUE, fs |-> f]
                ELSE fs_create_dir_all(f, path))

\* checkout_file: the file is opened by its name alone, in the current
\* directory
checkout_file(f, um, file_entry) ==
    LET written(wrote) ==
            [ok |-> wrote.ok, err |-> IF wrote.ok THEN "" ELSE "io", fs |-> wrote.fs]
        write(parsed) ==
            IF ~parsed.ok THEN [ok |-> FALSE, err |-> parsed.err, fs |-> f]
            ELSE IF parsed.variant # "Blob"
            THEN [ok |-> FALSE, err |-> "is not a blob", fs |-> f]
            ELSE written(open_write(f, um, <<file_entry.name>>, file_entry.mode,
                                    parsed.blob))
    IN  write(LoadParsed(f, hex_encode(file_entry.hash)))

RECURSIVE checkout_tree(_, _, _, _)
RECURSIVE checkout_entries(_, _, _, _)

\* checkout_tree: the loop over the entries; a directory entry recurses
\* with the same target_path
checkout_entries(f, um, entries, target_path) ==
    LET next(done) ==
            IF ~done.ok THEN done
            ELSE checkout_entries(done.fs, um, Tail(entries), target_path)
    IN  IF entries = <<>> THEN [ok |-> TRUE, err |-> "", fs |-> f]
        ELSE next(IF entries[1].mode = DIRECTORY_MODE
                  THEN checkout_tree(f, um, hex_encode(entries[1].hash), target_path)
                  ELSE checkout_file(f, um, entries[1]))

\* checkout_tree
checkout_tree(f, um, tree_hash, target_path) ==
    LET into(parsed, made) ==
            IF ~made.ok THEN [ok |-> FALSE, err |-> "io", fs |-> f]
            ELSE checkout_entries(made.fs, um, parsed.tree, target_path)
        walk(parsed) ==
            IF ~parsed.ok THEN [ok |-> FALSE, err |-> parsed.err, fs |-> f]
            ELSE IF parsed.variant # "Tree"
            THEN [ok |-> FALSE, err |-> "is not a tree", fs |-> f]
            ELSE into(parsed, fs_create_dir_all(f, target_path))
    IN  walk(LoadParsed(f, tree_hash))

\* checkout: the tree of the commit, into the current directory
checkout(f, um, hash) ==
    LET tree_of(parsed) ==
            IF ~parsed.ok THEN [ok |-> FALSE, err |-> parsed.err, fs |-> f]
            ELSE IF parsed.variant # "Commit"
            THEN [ok |-> FALSE, err |-> "is not a commit", fs |-> f]
            ELSE checkout_tree(f, um, parsed.commit, <<>>)
    IN  tree_of(LoadParsed(f, hash))

----------------------------------------------------------------------------
(* Bounds and inputs of the object-store specification *)

MaxContentLen == 1      \* longest content handed to serialize directly
MaxCodecOps == 3        \* calls made in one behaviour of SpecCodec

\* the contents handed to serialize: runs of NUL bytes, and "a"
Contents == SeqsUpTo({0}, MaxContentLen) \cup {<<97>>}
Umasks == {0, \o22}

RootOnly == (<<>> :> DirNode)
NoCall == [op |-> "none"]
\* the processes that may serialize at the same time, none of them doing so
Processes == {1, 2}
NotWriting == [pc |-> "idle", kind |-> <<>>, content |-> <<>>, hash |-> <<>>,
               path |-> <<>>, bytes |-> <<>>, pos |-> 0]
NoWriters == [p \in Processes |-> NotWriting]
NoResponse == [reachable |-> FALSE, status |-> 0, content_type |-> <<>>, body |-> <<>>]
Idle == [pc |-> "idle", at |-> "", url |-> <<>>, path |-> <<>>,
         response |-> NoResponse, refs |-> <<>>, err |-> "", pack |-> <<>>,
         objects |-> <<>>]

\* strings handed to from_hash that are not the hash of a stored object
StrayHashes ==
    { <<>>,
      hex_encode(Sha1(<<1>>)),
      Front(hex_encode(Sha1(<<1>>))),
      Append(hex_encode(Sha1(<<1>>)), 48) }

StoredHexes == {hex_encode(ledger[k].hash) : k \in DOMAIN ledger}

----------------------------------------------------------------------------
(* The object store: serialize and load *)

InitCodec ==
    /\ fs = RootOnly
    /\ umask \in Umasks
    /\ last = NoCall
    /\ ledger = [k \in {} |-> 0]
    /\ steps = 0
    /\ seen = {}
    /\ pk = NoCall
    /\ cl = Idle
    /\ net = <<>>
    /\ writers = NoWriters

\* the ledger after a serialize of (kind, content) that returned r
Record(kind, content, r) ==
    LET key == <<kind, content>>
        path == object_path(hex_encode(r.hash)).path
    IN  IF ~r.ok \/ key \in DOMAIN ledger THEN ledger
        ELSE [k \in DOMAIN ledger \cup {key} |->
                 IF k = key
                 THEN [hash |-> r.hash, path |-> path, bytes |-> r.fs[path].content,
                       at |-> steps]
                 ELSE ledger[k]]

\* Object::new(kind, content).serialize()
Serialize(kind, content) ==
    LET returned(r) ==
            /\ fs' = r.fs
            /\ last' = [op |-> "serialize", kind |-> kind, content |-> content,
                        ok |-> r.ok, hash |-> r.hash,
                        again |-> <<kind, content>> \in DOMAIN ledger]
            /\ ledger' = Record(kind, content, r)
    IN  /\ steps < MaxCodecOps
        /\ returned(Object_serialize(fs, umask, Object_new(kind, content)))
        /\ steps' = steps + 1
        /\ UNCHANGED <<writers, umask, seen, pk, cl, net>>

\* Object::from_hash(hash)
Load(hash) ==
    /\ steps < MaxCodecOps
    /\ last' = [op |-> "load", hash |-> hash] @@ Object_from_hash(fs, hash)
    /\ steps' = steps + 1
    /\ UNCHANGED <<writers, fs, umask, ledger, seen, pk, cl, net>>

NextCodec ==
    \/ \E kind \in Kinds, content \in Contents : Serialize(kind, content)
    \/ \E hash \in StoredHexes \cup StrayHashes : Load(hash)

SpecCodec == InitCodec /\ [][NextCodec]_vars

\* stores whose object file for the first stray hash was damaged from outside:
\* "blob 0" without its NUL, and bytes that are no zlib stream
DamagedPath == object_path(hex_encode(Sha1(<<1>>))).path
Damaged(bytes) ==
    Put(fs_create_dir_all(RootOnly, Front(DamagedPath)).fs, DamagedPath,
        FileNode(bytes, S_IFREG + \o444))
StoreWithoutNul == Damaged(ZlibEncode(<<98, 108, 111, 98, 32, 48>>))
StoreNotZlib == Damaged(<<1, 2, 3>>)

InitLoad ==
    /\ fs \in {RootOnly, StoreWithoutNul, StoreNotZlib}
    /\ umask \in Umasks
    /\ last = NoCall
    /\ ledger = [k \in {} |-> 0]
    /\ steps = 0
    /\ seen = {}
    /\ pk = NoCall
    /\ cl = Idle
    /\ net = <<>>
    /\ writers = NoWriters

\* strings of the length of a hash that are no hexadecimal numbers:
\* forty times "g"
MalformedHashes == {[i \in 1..HASH_HEX_SIZE |-> 103]}

NextLoad ==
    \/ \E kind \in Kinds, content \in Contents : Serialize(kind, content)
    \/ \E hash \in StoredHexes \cup StrayHashes \cup MalformedHashes : Load(hash)

SpecLoad == InitLoad /\ [][NextLoad]_vars

----------------------------------------------------------------------------
(* The object store under processes that serialize at the same time *)

MaxStoreSteps == 7      \* steps taken in one behaviour of SpecStore

\* the objects the processes serialize
SharedObjects == {<<KindBlob, <<97>>>>, <<KindTree, <<>>>>}

\* fs::File::create: a new empty file, or the existing file cut to no bytes
File_create(f, um, p) == open_write(f, um, p, \o666, <<>>)

\* a write of chunk through a descriptor whose offset is pos: the bytes
\* between the end of a shorter file and pos read as zeros
WriteAt(content, pos, chunk) ==
    [i \in 1..(IF Len(content) > pos + Len(chunk) THEN Len(content)
               ELSE pos + Len(chunk)) |->
        IF i > pos /\ i <= pos + Len(chunk) THEN chunk[i - pos]
        ELSE IF i <= Len(content) THEN content[i]
        ELSE 0]

\* the sizes a write of the remaining bytes may take: all, or the first half
ChunkSizes(remaining) == {remaining} \cup {n \in {remaining \div 2} : n > 0}

\* what a serialize that ends reports
Returned(p, ok) ==
    [op |-> "serialize", process |-> p, kind |-> writers[p].kind,
     content |-> writers[p].content, ok |-> ok,
     hash |-> IF ok THEN writers[p].hash ELSE <<>>,
     again |-> <<writers[p].kind, writers[p].content>> \in DOMAIN ledger]

\* Object::serialize, to fs::create_dir_all(filepath.parent().unwrap())?
SerializeBegin(p, kind, content) ==
    LET entered(o, hash, filepath, made) ==
            /\ fs' = made.fs
            /\ writers' = [writers EXCEPT ![p] =
                   IF ~made.ok THEN NotWriting
                   ELSE [pc |-> "create", kind |-> kind, content |-> content,
                         hash |-> hash, path |-> filepath.path,
                         bytes |-> ZlibEncode(o.header \o <<0>> \o o.content),
                         pos |-> 0]]
        at_path(o, hash, filepath) ==
            entered(o, hash, filepath, fs_create_dir_all(fs, Front(filepath.path)))
        with_hash(o, hash) == at_path(o, hash, object_path(hex_encode(hash)))
        of_object(o) == with_hash(o, Object_hash(o))
    IN  /\ steps < MaxStoreSteps
        /\ writers[p].pc = "idle"
        /\ of_object(Object_new(kind, content))
        /\ steps' = steps + 1
        /\ UNCHANGED <<umask, last, ledger, seen, pk, cl, net>>

\* Object::serialize: fs::File::create(filepath)?
SerializeCreate(p) ==
    LET created(r) ==
            /\ fs' = r.fs
            /\ writers' = [writers EXCEPT ![p] =
                   IF r.ok THEN [writers[p] EXCEPT !.pc = "write"] ELSE NotWriting]
            /\ last' = IF r.ok THEN last ELSE Returned(p, FALSE)
    IN  /\ steps < MaxStoreSteps
        /\ writers[p].pc = "create"
        /\ created(File_create(fs, umask, writers[p].path))
        /\ steps' = steps + 1
        /\ UNCHANGED <<umask, ledger, seen, pk, cl, net>>

\* Object::serialize: the encoder writes size more bytes of the compressed
\* object to the file; the write of the last byte is in encoder.finish()?,
\* and Ok(hash) follows
SerializeWrite(p, size) ==
    LET w == writers[p]
        wrote(content) ==
            /\ fs' = Put(fs, w.path, FileNode(content, fs[w.path].mode))
            /\ IF w.pos + size < Len(w.bytes)
               THEN /\ writers' = [writers EXCEPT ![p].pos = w.pos + size]
                    /\ UNCHANGED <<last, ledger>>
               ELSE /\ writers' = [writers EXCEPT ![p] = NotWriting]
                    /\ last' = Returned(p, TRUE)
                    /\ ledger' = Record(w.kind, w.content,
                                        [ok |-> TRUE, hash |-> w.hash, fs |-> fs'])
    IN  /\ steps < MaxStoreSteps
        /\ w.pc = "write"
        /\ wrote(WriteAt(fs[w.path].content, w.pos,
                         SubSeq(w.bytes, w.pos + 1, w.pos + size)))
        /\ steps' = steps + 1
        /\ UNCHANGED <<umask, seen, pk, cl, net>>

\* Object::from_hash(hash) by a process that reads the store
LoadShared(hash) ==
    /\ steps < MaxStoreSteps
    /\ last' = [op |-> "load", hash |-> hash, returned |-> hash \in StoredHexes,
                writing |-> {p \in Processes : /\ writers[p].pc # "idle"
                                               /\ hex_encode(writers[p].hash) = hash}]
                    @@ Object_from_hash(fs, hash)
    /\ steps' = steps + 1
    /\ UNCHANGED <<writers, fs, umask, ledger, seen, pk, cl, net>>

NextStore ==
    \/ \E p \in Processes, o \in SharedObjects : SerializeBegin(p, o[1], o[2])
    \/ \E p \in Processes : SerializeCreate(p)
    \/ \E p \in Processes :
          \E size \in ChunkSizes(Len(writers[p].bytes) - writers[p].pos) :
             SerializeWrite(p, size)
    \/ \E hash \in StoredHexes : LoadShared(hash)

SpecStore == InitCodec /\ [][NextStore]_vars

\* C14: a load of a hash that a serialize has returned gives the object that
\* was serialized, whole, wherever the other processes are in a serialize
\* of the same object; and the file of a stored object keeps the bytes it
\* had when that serialize returned.
C14_ConcurrentWritersSafe ==
    /\ (last.op = "load" /\ last.returned) =>
           /\ last.ok
           /\ \E k \in DOMAIN ledger :
                  /\ hex_encode(ledger[k].hash) = last.hash
                  /\ HeaderKind(last.object.header) = k[1]
                  /\ last.object.content = k[2]
    /\ \A k \in DOMAIN ledger :
           /\ IsFile(fs, ledger[k].path)
           /\ fs[ledger[k].path].content = ledger[k].bytes

\* C1: serializing Object(kind, content) and loading the object by the hex
\* of the returned hash yields the same content and a header of that kind.
C1_RoundTrip ==
    LET same(r) == /\ r.ok
                   /\ r.object.content = last.content
                   /\ HeaderKind(r.object.header) = last.kind
    IN  (last.op = "serialize" /\ last.ok) =>
            same(Object_from_hash(fs, hex_encode(last.hash)))

\* a tag whose content holds a NUL byte was serialized
C1_Witness ==
    /\ last.op = "serialize" /\ last.ok
    /\ last.kind = KindTag
    /\ \E i \in 1..Len(last.content) : last.content[i] = 0

\* C2: a serialize of a (kind, content) that was serialized before returns
\* the same hash, writes the same bytes to the same path
\* .git/objects/{hex[0:2]}/{hex[2:40]} and leaves the store as it was,
\* whatever was serialized in between.
C2_Idempotent ==
    [][ \A key \in DOMAIN ledger :
          (last'.op = "serialize" /\ last'.again
             /\ <<last'.kind, last'.content>> = key)
          => /\ last'.ok
             /\ last'.hash = ledger[key].hash
             /\ ledger[key].path =
                  <<DotGit, ObjectsName, Take(hex_encode(last'.hash), 2),
                    SubSeq(hex_encode(last'.hash), 3, 40)>>
             /\ fs'[ledger[key].path].content = ledger[key].bytes
             /\ fs' = fs ]_vars

\* an object was serialized again after another object was serialized
C2_Witness ==
    /\ last.op = "serialize" /\ last.ok /\ last.again
    /\ \E other \in DOMAIN ledger :
          ledger[other].at > ledger[<<last.kind, last.content>>].at

----------------------------------------------------------------------------
(* The pack decoder (src/src/git/pack.rs) *)

SIGNATURE_SIZE == 4
SIGNATURE == <<80, 65, 67, 75>>                         \* "PACK"
VERSION == 2
PACK_FRAME_SIZE == SIGNATURE_SIZE + 4 * 2 + HASH_SIZE

IdCommit == 1
IdTree == 2
IdBlob == 3
IdTag == 4
IdOffsetDelta == 6
IdReferenceDelta == 7
ObjectTypeIds == {IdCommit, IdTree, IdBlob, IdTag, IdOffsetDelta, IdReferenceDelta}

\* ObjectTypeId::to_string
ObjectTypeId_to_string(id) ==
    CASE id = IdCommit -> KindCommit
      [] id = IdTree -> KindTree
      [] id = IdBlob -> KindBlob
      [] id = IdTag -> KindTag
      [] id = IdOffsetDelta -> <<111, 102, 115, 95, 100, 101, 108, 116, 97>>
      [] id = IdReferenceDelta -> <<114, 101, 102, 95, 100, 101, 108, 116, 97>>

\* Buf::get_u32: four bytes, big-endian
U32(b) == ((b[1] * 256 + b[2]) * 256 + b[3]) * 256 + b[4]

\* parse_multibyte_number_tail: the loop, with byte the last byte read
RECURSIVE number_tail_loop(_, _, _, _)
number_tail_loop(byte, number, bit_shift, parser) ==
    IF parser # <<>> /\ BitAnd(byte, 128) # 0
    THEN IF bit_shift >= 64
         THEN [ok |-> FALSE, err |-> "Object size overflow", number |-> 0,
               parser |-> Tail(parser)]
         ELSE number_tail_loop(parser[1],
                               BitOr(number, Shl(BitAnd(parser[1], 127), bit_shift)),
                               bit_shift + 7, Tail(parser))
    ELSE [ok |-> TRUE, err |-> "", number |-> number, parser |-> parser]

\* parse_multibyte_number_tail
parse_multibyte_number_tail(first_byte, bit_width, parser) ==
    number_tail_loop(first_byte, BitAnd(first_byte, 127), bit_width, parser)

\* parse_multibyte_number
parse_multibyte_number(parser) ==
    IF parser = <<>>
    THEN [ok |-> FALSE, err |-> "number too short", number |-> 0, parser |-> parser]
    ELSE parse_multibyte_number_tail(parser[1], 7, Tail(parser))

\* parse_object_header
parse_object_header_shift7(parser) ==
    IF parser = <<>>
    THEN [ok |-> FALSE, err |-> "Object header is too short", id |-> 0,
          size |-> 0, parser |-> parser]
    ELSE LET first_byte == parser[1]
             id == Shr(BitAnd(first_byte, 112), 4)
             header(n) == [ok |-> n.ok, err |-> n.err, id |-> id, size |-> n.number,
                           parser |-> n.parser]
         IN  IF id \notin ObjectTypeIds
             THEN [ok |-> FALSE, err |-> "Unknown Object ID", id |-> id,
                   size |-> 0, parser |-> Tail(parser)]
             ELSE header(parse_multibyte_number_tail(
                             first_byte - BitAnd(first_byte, 112), 7, Tail(parser)))
parse_object_header(parser) ==
    IF parser = <<>>
    THEN [ok |-> FALSE, err |-> "Object header is too short", id |-> 0,
          size |-> 0, parser |-> parser]
    ELSE LET first_byte == parser[1]
             id == Shr(BitAnd(first_byte, 112), 4)
             header(n) == [ok |-> n.ok, err |-> n.err, id |-> id, size |-> n.number,
                           parser |-> n.parser]
         IN  IF id \notin ObjectTypeIds
             THEN [ok |-> FALSE, err |-> "Unknown Object ID", id |-> id,
                   size |-> 0, parser |-> Tail(parser)]
             ELSE header(parse_multibyte_number_tail(
                             first_byte - BitAnd(first_byte, 112), 4, Tail(parser)))

\* unpack_content: size is only a capacity hint
unpack_content(size, parser) ==
    LET read_to_end(z) ==
            IF z.ok
            THEN [ok |-> TRUE, err |-> "", content |-> z.data,
                  parser |-> Drop(parser, z.total_in)]
            ELSE [ok |-> FALSE, err |-> "io", content |-> <<>>, parser |-> parser]
    IN  read_to_end(ZlibDecode(parser))

\* build_number: the bytes selected by the low bit_width bits of mask,
\* little-endian
RECURSIVE build_number_from(_, _, _, _, _)
build_number_from(mask, bit_width, b, number, data) ==
    IF b >= bit_width THEN [ok |-> TRUE, number |-> number, data |-> data]
    ELSE IF BitAnd(mask, Pow2(b)) = 0
    THEN build_number_from(mask, bit_width, b + 1, number, data)
    ELSE IF data = <<>> THEN [ok |-> FALSE, number |-> 0, data |-> data]
    ELSE build_number_from(mask, bit_width, b + 1,
                           BitOr(number, Shl(data[1], 8 * b)), Tail(data))
RECURSIVE build_number_packed_from(_, _, _, _, _, _)
build_number_packed_from(mask, bit_width, b, taken, number, data) ==
    IF b >= bit_width THEN [ok |-> TRUE, number |-> number, data |-> data]
    ELSE IF BitAnd(mask, Pow2(b)) = 0
    THEN build_number_packed_from(mask, bit_width, b + 1, taken, number, data)
    ELSE IF data = <<>> THEN [ok |-> FALSE, number |-> 0, data |-> data]
    ELSE build_number_packed_from(mask, bit_width, b + 1, taken + 1,
                                  BitOr(number, Shl(data[1], 8 * taken)), Tail(data))
build_number_packed(mask, bit_width, data) ==
    build_number_packed_from(mask, bit_width, 0, 0, 0, data)
build_number(mask, bit_width, data) == build_number_from(mask, bit_width, 0, 0, data)

\* one entry of what patch_content printed
CopyLine(offset, size) == [op |-> "copy", offset |-> offset, size |-> size, remaining |-> 0]
InsertLine(size, remaining) == [op |-> "insert", offset |-> 0, size |-> size, remaining |-> remaining]

\* patch_content: the loop over the instructions
RECURSIVE patch_loop(_, _, _, _, _)
patch_loop(delta, target_size, object, new_content, printed) ==
    LET failed(e, lines) == [ok |-> FALSE, err |-> e, content |-> <<>>, printed |-> lines]
    IN
    IF delta = <<>>
    THEN IF Len(new_content) # target_size
         THEN failed("Unexpected object size", printed)
         ELSE [ok |-> TRUE, err |-> "", content |-> new_content, printed |-> printed]
    ELSE LET header == delta[1] IN
         IF BitAnd(header, 128) # 0
         THEN LET offset == build_number(header, 4, Tail(delta)) IN
              IF ~offset.ok THEN failed("Unfinished delta", printed)
              ELSE LET size == build_number(Shr(header, 4), 3, offset.data) IN
                   IF ~size.ok THEN failed("Unfinished delta", printed)
                   ELSE LET lines == Append(printed, CopyLine(offset.number, size.number)) IN
                        IF offset.number + size.number > Len(object)
                        THEN failed("Wrong delta copy", lines)
                        ELSE patch_loop(size.data, target_size, object,
                                        new_content \o SubSeq(object, offset.number + 1,
                                                              offset.number + size.number),
                                        lines)
         ELSE LET size == header
                  remaining == Len(delta) - 1
                  lines == Append(printed, InsertLine(size, remaining))
              IN  IF remaining < size THEN failed("Wrong delta", lines)
                  ELSE patch_loop(Drop(delta, 1 + size), target_size, object,
                                  new_content \o SubSeq(delta, 2, 1 + size), lines)

RECURSIVE patch_loop_clamped(_, _, _, _, _)
patch_loop_clamped(delta, target_size, object, new_content, printed) ==
    LET failed(e, lines) == [ok |-> FALSE, err |-> e, content |-> <<>>, printed |-> lines]
        Min(a, b) == IF a < b THEN a ELSE b
    IN
    IF delta = <<>>
    THEN IF Len(new_content) # target_size
         THEN failed("Unexpected object size", printed)
         ELSE [ok |-> TRUE, err |-> "", content |-> new_content, printed |-> printed]
    ELSE LET header == delta[1] IN
         IF BitAnd(header, 128) # 0
         THEN LET offset == build_number(header, 4, Tail(delta)) IN
              IF ~offset.ok THEN failed("Unfinished delta", printed)
              ELSE LET size == build_number(Shr(header, 4), 3, offset.data) IN
                   IF ~size.ok THEN failed("Unfinished delta", printed)
                   ELSE patch_loop_clamped(size.data, target_size, object,
                            new_content \o SubSeq(object, offset.number + 1,
                                Min(Len(object), offset.number + size.number)),
                            Append(printed, CopyLine(offset.number, size.number)))
         ELSE LET size == Min(header, Len(delta) - 1)
              IN  patch_loop_clamped(Drop(delta, 1 + size), target_size, object,
                                     new_content \o SubSeq(delta, 2, 1 + size),
                                     Append(printed, InsertLine(header, Len(delta) - 1)))

patch_content_clamped(delta, target_size, object) ==
    patch_loop_clamped(delta, target_size, object, <<>>, <<>>)
\* patch_content
patch_content(delta, target_size, object) ==
    patch_loop(delta, target_size, object, <<>>, <<>>)

\* patch_object
patch_object_as_blob(object, delta_size, parser) ==
    LET failed(e, rest) == [ok |-> FALSE, err |-> e, object |-> NoObject, parser |-> rest]
        with_patched(unpacked, patched) ==
            IF ~patched.ok THEN failed(patched.err, unpacked.parser)
            ELSE [ok |-> TRUE, err |-> "",
                  object |-> Object_new(KindBlob, patched.content),
                  parser |-> unpacked.parser]
        with_target_size(unpacked, target_size) ==
            IF ~target_size.ok THEN failed(target_size.err, unpacked.parser)
            ELSE with_patched(unpacked,
                              patch_content(target_size.parser, target_size.number,
                                            object.content))
        with_source_size(unpacked, source_size) ==
            IF ~source_size.ok THEN failed(source_size.err, unpacked.parser)
            ELSE with_target_size(unpacked, parse_multibyte_number(source_size.parser))
        with_unpacked(unpacked) ==
            IF ~unpacked.ok THEN failed(unpacked.err, parser)
            ELSE with_source_size(unpacked, parse_multibyte_number(unpacked.content))
    IN  with_unpacked(unpack_content(delta_size, parser))
patch_object(object, delta_size, parser) ==
    LET failed(e, rest) == [ok |-> FALSE, err |-> e, object |-> NoObject, parser |-> rest]
        with_patched(unpacked, patched) ==
            IF ~patched.ok THEN failed(patched.err, unpacked.parser)
            ELSE [ok |-> TRUE, err |-> "",
                  object |-> Object_new(HeaderKind(object.header), patched.content),
                  parser |-> unpacked.parser]
        with_target_size(unpacked, target_size) ==
            IF ~target_size.ok THEN failed(target_size.err, unpacked.parser)
            ELSE with_patched(unpacked,
                              patch_content(target_size.parser, target_size.number,
                                            object.content))
        with_source_size(unpacked, source_size) ==
            IF ~source_size.ok THEN failed(source_size.err, unpacked.parser)
            ELSE with_target_size(unpacked, parse_multibyte_number(source_size.parser))
        with_unpacked(unpacked) ==
            IF ~unpacked.ok THEN failed(unpacked.err, parser)
            ELSE with_source_size(unpacked, parse_multibyte_number(unpacked.content))
    IN  with_unpacked(unpack_content(delta_size, parser))

verify_pack_signature_first(parser) ==
    LET failed(e, n) == [ok |-> FALSE, err |-> e, parser |-> parser, read |-> n]
        body == Take(parser, Len(parser) - HASH_SIZE)
    IN  IF Len(parser) <= PACK_FRAME_SIZE THEN failed("Pack too short", 0)
        ELSE IF Take(body, SIGNATURE_SIZE) # SIGNATURE
        THEN failed("Wrong signature", SIGNATURE_SIZE)
        ELSE IF U32(SubSeq(body, SIGNATURE_SIZE + 1, SIGNATURE_SIZE + 4)) # VERSION
        THEN failed("Wrong version", SIGNATURE_SIZE + 4)
        ELSE IF Sha1(body) # Drop(parser, Len(parser) - HASH_SIZE)
        THEN failed("Corrupted pack", SIGNATURE_SIZE + 4)
        ELSE [ok |-> TRUE, err |-> "", parser |-> Drop(body, SIGNATURE_SIZE + 4),
              read |-> SIGNATURE_SIZE + 4]

\* verify_pack: parser is what is left to read (without the trailing digest
\* once that was split off), read the number of bytes read from its front
verify_pack(parser) ==
    LET failed(e, rest, n) == [ok |-> FALSE, err |-> e, parser |-> rest, read |-> n]
    IN  IF Len(parser) <= PACK_FRAME_SIZE THEN failed("Pack too short", parser, 0)
        ELSE LET expected_hash == Drop(parser, Len(parser) - HASH_SIZE)
                 body == Take(parser, Len(parser) - HASH_SIZE)
                 real_hash == Sha1(body)
             IN  IF real_hash # expected_hash THEN failed("Corrupted pack", body, 0)
                 ELSE IF Take(body, SIGNATURE_SIZE) # SIGNATURE
                 THEN failed("Wrong signature", Drop(body, SIGNATURE_SIZE), SIGNATURE_SIZE)
                 ELSE IF U32(SubSeq(body, SIGNATURE_SIZE + 1, SIGNATURE_SIZE + 4)) # VERSION
                 THEN failed("Wrong version", Drop(body, SIGNATURE_SIZE + 4),
                             SIGNATURE_SIZE + 4)
                 ELSE [ok |-> TRUE, err |-> "", parser |-> Drop(body, SIGNATURE_SIZE + 4),
                       read |-> SIGNATURE_SIZE + 4]

\* The state of the loop of parse: the parser, the arena of decoded objects,
\* the hash -> arena index map (indices count from 0, as in the code), and
\* one line per entry header parsed: its id and size, the arena length then,
\* and for a delta entry its base reference or distance.
HeaderLine(id, size, at, left) ==
    [id |-> id, size |-> size, at |-> at, left |-> left, reference |-> <<>>,
     offset |-> -1, offset_bytes |-> <<>>]

Insert(map, key, value) ==
    [k \in DOMAIN map \cup {key} |-> IF k = key THEN value ELSE map[k]]

Pushed(st, object, parser, log) ==
    [parser |-> parser,
     objects |-> Append(st.objects, object),
     ref_to_index |-> Insert(st.ref_to_index, Object_hash(object), Len(st.objects)),
     log |-> log]

Running(st) == [status |-> "ok", err |-> "", st |-> st]
Failed(e, st) == [status |-> "err", err |-> e, st |-> st]
Panicked(st) == [status |-> "panic", err |-> "", st |-> st]

\* parse, the arm Commit | Tree | Blob | Tag
concrete_arm(st, id, size, log) ==
    LET with_unpacked(unpacked) ==
            IF ~unpacked.ok THEN Failed(unpacked.err, [st EXCEPT !.log = log])
            ELSE Running(Pushed(st, Object_new(ObjectTypeId_to_string(id),
                                               unpacked.content),
                                unpacked.parser, log))
    IN  with_unpacked(unpack_content(size, st.parser))

reference_delta_arm_any_base(st, size, log) ==
    IF Len(st.parser) < HASH_SIZE THEN Panicked([st EXCEPT !.log = log])
    ELSE LET reference == Take(st.parser, HASH_SIZE)
             rest == Drop(st.parser, HASH_SIZE)
             line == [Last(log) EXCEPT !.reference = reference]
             log2 == Append(Front(log), line)
             index == IF reference \in DOMAIN st.ref_to_index
                      THEN st.ref_to_index[reference] ELSE 0
             with_patched(patched) ==
                 IF ~patched.ok
                 THEN Failed(patched.err, [st EXCEPT !.parser = rest, !.log = log2])
                 ELSE Running(Pushed(st, patched.object, patched.parser, log2))
         IN  IF st.objects = <<>>
             THEN Failed("Unknown object reference", [st EXCEPT !.parser = rest, !.log = log2])
             ELSE with_patched(patch_object(st.objects[index + 1], size, rest))

\* parse, the arm ReferenceDelta; copy_to_bytes panics when fewer than
\* HASH_SIZE bytes remain
reference_delta_arm(st, size, log) ==
    IF Len(st.parser) < HASH_SIZE THEN Panicked([st EXCEPT !.log = log])
    ELSE LET reference == Take(st.parser, HASH_SIZE)
             rest == Drop(st.parser, HASH_SIZE)
             line == [Last(log) EXCEPT !.reference = reference]
             log2 == Append(Front(log), line)
             with_patched(patched) ==
                 IF ~patched.ok
                 THEN Failed(patched.err, [st EXCEPT !.parser = rest, !.log = log2])
                 ELSE Running(Pushed(st, patched.object, patched.parser, log2))
         IN  IF reference \in DOMAIN st.ref_to_index
             THEN with_patched(patch_object(st.objects[st.ref_to_index[reference] + 1],
                                            size, rest))
             ELSE Failed("Unknown object reference",
                         [st EXCEPT !.parser = rest, !.log = log2])

\* parse, the arm OffsetDelta; objects[index] panics when index is the
\* length of the arena
offset_delta_arm(st, size, log) ==
    LET with_patched(patched, st2, log2) ==
            IF ~patched.ok THEN Failed(patched.err, st2)
            ELSE Running(Pushed(st, patched.object, patched.parser, log2))
        with_offset(offset) ==
            IF ~offset.ok THEN Failed(offset.err, [st EXCEPT !.log = log])
            ELSE LET line == [Last(log) EXCEPT
                                 !.offset = offset.number,
                                 !.offset_bytes =
                                     Take(st.parser, Len(st.parser) - Len(offset.parser))]
                     log2 == Append(Front(log), line)
                     st2 == [st EXCEPT !.parser = offset.parser, !.log = log2]
                 IN  IF offset.number > Len(st.objects)
                     THEN Failed("Wrong object offset", st2)
                     ELSE LET index == Len(st.objects) - offset.number
                          IN  IF index >= Len(st.objects) THEN Panicked(st2)
                              ELSE with_patched(
                                       patch_object(st.objects[index + 1], size,
                                                    offset.parser),
                                       st2, log2)
    IN  with_offset(parse_multibyte_number(st.parser))

\* parse: one turn of the loop over the entries
parse_entry(st) ==
    LET arm(h) ==
            IF ~h.ok THEN Failed(h.err, [st EXCEPT !.parser = h.parser])
            ELSE LET log == Append(st.log, HeaderLine(h.id, h.size, Len(st.objects),
                                                         Len(st.parser)))
                     st2 == [st EXCEPT !.parser = h.parser]
                 IN  IF h.id = IdReferenceDelta THEN reference_delta_arm(st2, h.size, log)
                     ELSE IF h.id = IdOffsetDelta THEN offset_delta_arm(st2, h.size, log)
                     ELSE concrete_arm(st2, h.id, h.size, log)
    IN  arm(parse_object_header(st.parser))

RECURSIVE parse_entries(_, _)
parse_entries(st, n) ==
    LET step(r) == IF r.status = "ok" THEN parse_entries(r.st, n - 1) ELSE r
    IN  IF n = 0 THEN Running(st) ELSE step(parse_entry(st))

\* parse: status is "ok" (Ok(objects)), "err" (Err) or "panic"; arena is
\* what was decoded when parse ended, read the number of bytes read from the
\* front of the buffer
pack_parse(pack_buffer) ==
    LET ended(r) ==
            [status |-> r.status, err |-> r.err,
             objects |-> IF r.status = "ok" THEN r.st.objects ELSE <<>>,
             arena |-> r.st.objects, log |-> r.st.log,
             read |-> Len(pack_buffer) - HASH_SIZE - Len(r.st.parser)]
        verified_pack(verified) ==
            IF ~verified.ok
            THEN [status |-> "err", err |-> verified.err, objects |-> <<>>,
                  arena |-> <<>>, log |-> <<>>, read |-> verified.read]
            ELSE LET object_number == U32(Take(verified.parser, 4))
                     st0 == [parser |-> Drop(verified.parser, 4), objects |-> <<>>,
                             ref_to_index |-> [h \in {} |-> 0], log |-> <<>>]
                 IN  ended(parse_entries(st0, object_number))
    IN  verified_pack(verify_pack(pack_buffer))

----------------------------------------------------------------------------
(* The error kinds of the specification, by the message of the code *)

ErrorKind(err) ==
    CASE err \in {"Pack too short", "Corrupted pack", "io", "number too short",
                  "Object header is too short", "Object size overflow",
                  "Wrong delta copy", "Wrong delta", "Unfinished delta",
                  "Unexpected object size", "Header not found"} -> "Corrupt"
      [] err \in {"Wrong signature", "Wrong version", "Unknown Object ID"}
             -> "UnsupportedFormat"
      [] err \in {"Unknown object reference", "Wrong object offset"}
             -> "UnresolvedDelta"
      [] err \in {"Invalid hash length"} -> "InvalidInput"
      [] err \in {"No such file or directory"} -> "NotFound"
      [] err \in {"Failed to discover references: unexpected status",
                  "Wrong response content type",
                  "Discovery response without capabilities line",
                  "Discovery response without capabilities",
                  "Missing git server capabilities"} -> "UnsupportedServer"
      [] OTHER -> "Other"

----------------------------------------------------------------------------
(* Bounds and inputs of the pack specification *)

MaxPackEntries == 2     \* entries of a generated pack
MaxDeltaLen == 3        \* bytes of a generated delta instruction stream
MaxTargetSize == 2      \* declared target size handed to patch_content

\* a number in the least-significant-group-first form
RECURSIVE EncodeNumber(_)
EncodeNumber(n) ==
    IF n < 128 THEN <<n>> ELSE <<128 + (n % 128)>> \o EncodeNumber(n \div 128)

EncodeHeader(id, size) ==
    IF size < 16 THEN <<id * 16 + size>>
    ELSE <<128 + id * 16 + (size % 16)>> \o EncodeNumber(size \div 16)

U32Bytes(n) == <<0, 0, n \div 256, n % 256>>

ConcreteEntry(id, content) == EncodeHeader(id, Len(content)) \o ZlibEncode(content)
RefDeltaEntry(base, delta) ==
    EncodeHeader(IdReferenceDelta, Len(delta)) \o base \o ZlibEncode(delta)
OfsDeltaEntry(distance, delta) ==
    EncodeHeader(IdOffsetDelta, Len(delta)) \o EncodeNumber(distance) \o ZlibEncode(delta)
\* an offset-delta entry whose distance is spelt by the bytes given
OfsDeltaEntryRaw(distance_bytes, delta) ==
    EncodeHeader(IdOffsetDelta, Len(delta)) \o distance_bytes \o ZlibEncode(delta)
MakeDelta(source_size, target_size, instructions) ==
    EncodeNumber(source_size) \o EncodeNumber(target_size) \o instructions

FramedPack(signature, version, count, entries) ==
    LET body == signature \o U32Bytes(version) \o U32Bytes(count) \o Concat(entries)
    IN  body \o Sha1(body)
MakePack(entries) == FramedPack(SIGNATURE, VERSION, Len(entries), entries)

BlobAB == <<97, 98>>
\* copy 1 byte from offset 0, insert "x": "ab" -> "ax"
DeltaGood == MakeDelta(2, 2, <<144, 1, 1, 120>>)
DeltaCopyOutOfRange == MakeDelta(2, 3, <<144, 3>>)
DeltaShortInsert == MakeDelta(2, 2, <<2, 120>>)
DeltaWrongSize == MakeDelta(2, 5, <<144, 1>>)

EntryBlob == ConcreteEntry(IdBlob, BlobAB)
EntryRefToBlob == RefDeltaEntry(Object_hash(Object_new(KindBlob, BlobAB)), DeltaGood)

EntryPool ==
    { EntryBlob,
      ConcreteEntry(IdCommit, <<99>>),
      ConcreteEntry(IdTree, <<>>),
      ConcreteEntry(IdTag, <<116>>),
      EntryRefToBlob,
      RefDeltaEntry(Object_hash(Object_new(KindBlob, <<97, 120>>)), DeltaGood),
      RefDeltaEntry(Object_hash(Object_new(KindBlob, <<122>>)), DeltaGood),
      RefDeltaEntry(Object_hash(Object_new(KindBlob, BlobAB)), DeltaWrongSize),
      OfsDeltaEntry(0, DeltaGood),
      OfsDeltaEntry(1, DeltaGood),
      OfsDeltaEntry(2, DeltaGood),
      OfsDeltaEntry(3, DeltaGood),
      OfsDeltaEntry(1, DeltaCopyOutOfRange),
      OfsDeltaEntry(1, DeltaShortInsert) }

RECURSIVE EntrySeqs(_)
EntrySeqs(n) ==
    IF n = 0 THEN {<<>>}
    ELSE LET shorter == EntrySeqs(n - 1)
         IN  shorter \cup {Append(es, e) : es \in shorter, e \in EntryPool}

GoodFramePacks == {MakePack(es) : es \in EntrySeqs(MaxPackEntries)}

\* packs whose frame is wrong although the digest is right
BadFramePacks ==
    { FramedPack(<<80, 65, 67, 88>>, VERSION, 1, <<EntryBlob>>),
      FramedPack(SIGNATURE, 3, 1, <<EntryBlob>>),
      FramedPack(SIGNATURE, VERSION, 2, <<EntryBlob>>),
      FramedPack(SIGNATURE, VERSION, 1, <<<<80>>>>),
      FramedPack(SIGNATURE, VERSION, 1, <<EncodeHeader(IdReferenceDelta, 1) \o <<1, 2, 3>>>>),
      FramedPack(SIGNATURE, VERSION, 1, <<EncodeHeader(IdOffsetDelta, 1)>>) }

FlipByte(buffer, i) == [buffer EXCEPT ![i] = (buffer[i] + 128) % 256]
FlipSources == {MakePack(<<EntryBlob>>), MakePack(<<EntryBlob, EntryRefToBlob>>)}
FlippedPacks == UNION {{FlipByte(p, i) : i \in 1..Len(p)} : p \in FlipSources}

ShortBuffers == {Take(MakePack(<<EntryBlob>>), n) : n \in {0, 19, 20, 31, 32}}

\* packs made by hand: an offset delta whose distance takes two bytes,
\* deltas whose base is itself the result of a delta on a tree, and
\* concrete entries whose header declares another size than they inflate to
CraftedPacks ==
    { MakePack(<<EntryBlob, OfsDeltaEntryRaw(<<129, 0>>, DeltaGood)>>),
      MakePack(<<EntryBlob, OfsDeltaEntryRaw(<<128, 1>>, DeltaGood)>>),
      MakePack(<<ConcreteEntry(IdTree, BlobAB), OfsDeltaEntry(1, DeltaGood),
                 OfsDeltaEntry(1, DeltaGood)>>),
      MakePack(<<ConcreteEntry(IdTree, BlobAB), OfsDeltaEntry(1, DeltaGood),
                 RefDeltaEntry(Object_hash(Object_new(KindTree, <<97, 120>>)),
                               DeltaGood)>>),
      MakePack(<<EncodeHeader(IdBlob, 5) \o ZlibEncode(BlobAB), EntryBlob>>),
      MakePack(<<EncodeHeader(IdTree, 20) \o ZlibEncode(<<>>)>>) }

PackBuffers ==
    GoodFramePacks \cup BadFramePacks \cup FlippedPacks \cup ShortBuffers
        \cup CraftedPacks

DeltaBytes == {0, 1, 2, 128, 144, 145}
DeltaStreams == SeqsUpTo(DeltaBytes, MaxDeltaLen)
DeltaBases == {<<>>, BlobAB}

\* calls of patch_content made by hand: copies whose offset and size take
\* their second, third and fourth bytes, from a base of 260 bytes
LongBase == [i \in 1..260 |-> i % 256]
PatchCall(delta, target_size, object) ==
    [delta |-> delta, target_size |-> target_size, object |-> object]
CraftedPatches ==
    { PatchCall(<<146, 1, 2>>, 2, LongBase),
      PatchCall(<<179, 3, 1, 1, 0>>, 1, LongBase),
      PatchCall(<<160, 1>>, 256, LongBase),
      PatchCall(<<192, 1>>, 0, LongBase),
      PatchCall(<<132, 1>>, 0, LongBase),
      PatchCall(<<136, 1>>, 0, LongBase),
      PatchCall(<<145, 1, 1, 1, 120>>, 2, BlobAB),
      PatchCall(<<145, 0, 2, 144, 1>>, 3, BlobAB) }

----------------------------------------------------------------------------
(* The pack decoder: parse and patch_content applied to inputs *)

InitPack ==
    /\ fs = RootOnly
    /\ umask = \o22
    /\ last = NoCall
    /\ ledger = [k \in {} |-> 0]
    /\ steps = 0
    /\ seen = {}
    /\ pk = NoCall
    /\ cl = Idle
    /\ net = <<>>
    /\ writers = NoWriters

\* pack::parse(pack_buffer)
ParsePack(pack_buffer) ==
    /\ pk = NoCall
    /\ pk' = [op |-> "parse", buffer |-> pack_buffer] @@ pack_parse(pack_buffer)
    /\ UNCHANGED <<writers, fs, umask, last, ledger, steps, seen, cl, net>>

\* patch_content(delta, target_size, object)
PatchContent(delta, target_size, object) ==
    /\ pk = NoCall
    /\ pk' = [op |-> "patch", delta |-> delta, target_size |-> target_size,
              object |-> object] @@ patch_content(delta, target_size, object)
    /\ UNCHANGED <<writers, fs, umask, last, ledger, steps, seen, cl, net>>

NextPack ==
    \/ \E pack_buffer \in PackBuffers : ParsePack(pack_buffer)
    \/ \E delta \in DeltaStreams, target_size \in 0..MaxTargetSize, object \in DeltaBases :
           PatchContent(delta, target_size, object)
    \/ \E call \in CraftedPatches :
           PatchContent(call.delta, call.target_size, call.object)

SpecPack == InitPack /\ [][NextPack]_vars

\* the digest of a buffer's body differs from its trailing HASH_SIZE bytes
DigestMismatch(buffer) ==
    /\ Len(buffer) >= HASH_SIZE
    /\ Sha1(Take(buffer, Len(buffer) - HASH_SIZE)) # Drop(buffer, Len(buffer) - HASH_SIZE)

\* C3: when the digest of the bytes before the trailing 20 bytes differs
\* from those 20 bytes, parse fails with a corruption error before the
\* signature, the version or the object count is read and before any
\* object is decoded.
C3_DigestFirst ==
    (pk.op = "parse" /\ DigestMismatch(pk.buffer)) =>
        /\ pk.status = "err"
        /\ ErrorKind(pk.err) = "Corrupt"
        /\ pk.read = 0
        /\ pk.log = <<>> /\ pk.arena = <<>> /\ pk.objects = <<>>

\* one byte of the signature of a valid pack was flipped: the digest, not
\* the signature, is what parse reports
C3_Witness ==
    /\ pk.op = "parse"
    /\ pk.buffer = FlipByte(MakePack(<<EntryBlob>>), 1)
    /\ pk.err = "Corrupted pack"

\* the hashes of the objects decoded before entry line of the log
DecodedBefore(line) ==
    {Object_hash(pk.arena[j]) : j \in 1..(IF line.at < Len(pk.arena) THEN line.at ELSE Len(pk.arena))}

\* C4: a ref-delta entry whose base hash is not the hash of an object
\* decoded earlier in the stream (also when the base comes later in the
\* stream) makes parse fail with an unresolved-delta error and return no
\* objects.
C4_RefDeltaNeedsEarlierBase ==
    pk.op = "parse" =>
        \A i \in 1..Len(pk.log) :
            (/\ pk.log[i].id = IdReferenceDelta
             /\ Len(pk.log[i].reference) = HASH_SIZE
             /\ pk.log[i].reference \notin DecodedBefore(pk.log[i]))
            => /\ pk.status = "err"
               /\ ErrorKind(pk.err) = "UnresolvedDelta"
               /\ pk.objects = <<>>
               /\ Len(pk.arena) = pk.log[i].at
               /\ i = Len(pk.log)

\* the base of the ref-delta entry is the next entry of the stream
C4_Witness ==
    /\ pk.op = "parse"
    /\ pk.buffer = MakePack(<<EntryRefToBlob, EntryBlob>>)
    /\ pk.status = "err"
    /\ pk.err = "Unknown object reference"

\* C5: an offset-delta entry decoded when the arena holds i objects, with
\* distance d, uses arena entry i - d with 0 <= i - d < i; any other
\* distance makes parse fail with an unresolved-delta error.
C5_OffsetDeltaInRange ==
    pk.op = "parse" =>
        \A i \in 1..Len(pk.log) :
            (pk.log[i].id = IdOffsetDelta /\ pk.log[i].offset >= 0) =>
                LET index == pk.log[i].at - pk.log[i].offset
                IN  IF 0 <= index /\ index < pk.log[i].at
                    THEN pk.status # "panic"
                    ELSE pk.status = "err" /\ ErrorKind(pk.err) = "UnresolvedDelta"

\* C6: patch_content returns a result only of the declared target size, and
\* fails with a corruption error when a copy range is not inside the base
\* or an insert declares more bytes than remain.
C6_PatchChecked ==
    pk.op = "patch" =>
        /\ pk.ok => Len(pk.content) = pk.target_size
        /\ \A i \in 1..Len(pk.printed) :
             LET line == pk.printed[i]
             IN  (\/ line.op = "copy" /\ line.offset + line.size > Len(pk.object)
                  \/ line.op = "insert" /\ line.size > line.remaining)
                 => ~pk.ok /\ ErrorKind(pk.err) = "Corrupt"
        /\ ~pk.ok => ErrorKind(pk.err) = "Corrupt"

\* a copy that reaches past the end of the base, after an insert that fitted
C6_Witness ==
    /\ pk.op = "patch" /\ ~pk.ok
    /\ Len(pk.printed) = 2
    /\ pk.printed[1].op = "insert"
    /\ pk.printed[2].op = "copy"
    /\ pk.printed[2].offset + pk.printed[2].size > Len(pk.object)
    /\ pk.printed[2].offset + pk.printed[2].size <= pk.target_size

----------------------------------------------------------------------------
(* Bounds and inputs of the repository specification *)

MaxRepoOps == 3         \* commands run in one behaviour of SpecRepo

NameA == <<97>>
NameB == <<98>>
NameC == <<99>>
NameD == <<100>>
NameF == <<102>>
NameOut == <<111, 117, 116>>                                         \* "out"
NameHello == <<104, 101, 108, 108, 111, 46, 116, 120, 116>>          \* "hello.txt"
World == <<119, 111, 114, 108, 100>>                                 \* "world"

\* the directories the commands are run in
WorkHello ==
    (<<>> :> DirNode) @@ (<<NameHello>> :> FileNode(World, S_IFREG + \o644))
WorkNested ==
    (<<>> :> DirNode) @@ (<<NameA>> :> FileNode(<<97>>, S_IFREG + \o755))
        @@ (<<NameD>> :> DirNode)
        @@ (<<NameD, NameF>> :> FileNode(<<120>>, S_IFREG + \o644))
WorkThree ==
    (<<>> :> DirNode) @@ (<<NameB>> :> FileNode(<<98>>, S_IFREG + \o644))
        @@ (<<NameA>> :> FileNode(<<97>>, S_IFREG + \o600))
        @@ (<<NameC>> :> FileNode(<<>>, S_IFREG + \o644))
\* a repository made by git itself, with its refs/heads directory
WorkGit ==
    WorkHello @@ (<<DotGit>> :> DirNode) @@ (<<DotGit, ObjectsName>> :> DirNode)
        @@ (<<DotGit, RefsName>> :> DirNode)
        @@ (<<DotGit, RefsName, HeadsName>> :> DirNode)
        @@ (<<DotGit, HeadName>> :> FileNode(HeadContent, S_IFREG + \o644))
WorkTrees == {WorkHello, WorkNested, WorkThree, WorkGit}

Targets == {<<>>, <<NameOut>>}
Messages == {<<109>>}                                                \* "m"
Clock == {0, 1700000000}
ZeroHash == [i \in 1..HASH_SIZE |-> 0]

\* the files and directories of f outside .git and outside directory except
WorkFiles(f, except) ==
    {p \in DOMAIN f : /\ p # <<>>
                      /\ p[1] # DotGit
                      /\ (except = <<>> \/ ~IsPrefix(except, p))}
Snapshot(f, except) == [p \in WorkFiles(f, except) |-> f[p]]

SeenHexes(what) == {x.hash : x \in {y \in seen : y.what = what}}
Saw(what, r) == IF r.ok THEN seen \cup {[what |-> what, hash |-> hex_encode(r.hash)]}
                ELSE seen

----------------------------------------------------------------------------
(* The repository commands *)

InitRepo ==
    /\ fs \in WorkTrees
    /\ umask \in Umasks
    /\ last = NoCall
    /\ ledger = [k \in {} |-> 0]
    /\ steps = 0
    /\ seen = {}
    /\ pk = NoCall
    /\ cl = Idle
    /\ net = <<>>
    /\ writers = NoWriters

\* the directory holds what init makes: .git with objects, refs and HEAD
HoldsRepository(f, path) ==
    /\ IsDir(f, path \o <<DotGit>>)
    /\ IsDir(f, path \o <<DotGit, ObjectsName>>)
    /\ IsDir(f, path \o <<DotGit, RefsName>>)
    /\ IsFile(f, path \o <<DotGit, HeadName>>)

\* Command::Init: git::init(".")
CmdInit ==
    LET returned(r) == /\ fs' = r.fs
                       /\ last' = [op |-> "init", ok |-> r.ok,
                                   had_repository |-> HoldsRepository(fs, <<>>)]
    IN  /\ steps < MaxRepoOps
        /\ returned(init(fs, umask, <<>>))
        /\ steps' = steps + 1
        /\ UNCHANGED <<writers, umask, ledger, seen, pk, cl, net>>

\* Command::HashObject: git::blobify(path)
CmdHashObject(path) ==
    LET returned(r) == /\ fs' = r.fs
                       /\ last' = [op |-> "hash-object", ok |-> r.ok, hash |-> r.hash]
                       /\ seen' = Saw("blob", r)
    IN  /\ steps < MaxRepoOps
        /\ returned(blobify(fs, umask, path))
        /\ steps' = steps + 1
        /\ UNCHANGED <<writers, umask, ledger, pk, cl, net>>

\* Command::WriteTree: git::write_tree("."), the directories listed in the
\* order the file system chooses
CmdWriteTree(order) ==
    LET returned(r) == /\ fs' = r.fs
                       /\ last' = [op |-> "write-tree", ok |-> r.ok, hash |-> r.hash,
                                   order |-> order]
                       /\ seen' = Saw("tree", r)
    IN  /\ steps < MaxRepoOps
        /\ returned(write_tree(fs, umask, <<>>, order))
        /\ steps' = steps + 1
        /\ UNCHANGED <<writers, umask, ledger, pk, cl, net>>

\* the -p argument of commit-tree: parent_hash is a String without a
\* default, so a command line without it is refused before run is entered
ParentArgs ==
    {[given |-> FALSE, hash |-> <<>>], [given |-> TRUE, hash |-> hex_encode(ZeroHash)]}

\* Command::CommitTree: parse_hash of both hashes, then git::commit
CmdCommitTree(tree_hash, parent, message, now) ==
    LET returned(args_ok, r) ==
            /\ fs' = r.fs
            /\ last' = [op |-> "commit-tree", ok |-> r.ok, hash |-> r.hash,
                        args_ok |-> args_ok,
                        tree_hash |-> tree_hash, parent |-> parent,
                        message |-> message, now |-> now,
                        initialised |-> IsFile(fs, <<DotGit, HeadName>>)
                                          /\ fs[<<DotGit, HeadName>>].content = HeadContent]
            /\ seen' = Saw("commit", r)
        run(tree, parent_parsed) ==
            returned(tree.ok /\ parent_parsed.ok,
                     IF tree.ok /\ parent_parsed.ok
                     THEN commit(fs, umask, tree.bytes, parent_parsed.bytes, message, now)
                     ELSE [ok |-> FALSE, hash |-> <<>>, fs |-> fs])
    IN  /\ steps < MaxRepoOps
        /\ IF parent.given
           THEN run(parse_hash(tree_hash), parse_hash(parent.hash))
           ELSE returned(FALSE, [ok |-> FALSE, hash |-> <<>>, fs |-> fs])
        /\ steps' = steps + 1
        /\ UNCHANGED <<writers, umask, ledger, pk, cl, net>>

\* checkout_tree(tree_hash, target_path), called in the directory of the
\* repository
CallCheckoutTree(tree_hash, target_path) ==
    LET returned(r) ==
            /\ fs' = r.fs
            /\ last' = [op |-> "checkout-tree", ok |-> r.ok, err |-> r.err,
                        tree_hash |-> tree_hash, target_path |-> target_path,
                        source |-> Snapshot(fs, target_path),
                        built |-> /\ last.op = "write-tree" /\ last.ok
                                  /\ hex_encode(last.hash) = tree_hash,
                        target_empty |-> /\ target_path # <<>>
                                         /\ Children(fs, target_path) = {}]
    IN  /\ steps < MaxRepoOps
        /\ returned(checkout_tree(fs, umask, tree_hash, target_path))
        /\ steps' = steps + 1
        /\ UNCHANGED <<writers, umask, ledger, seen, pk, cl, net>>

\* checkout(hash)
CallCheckout(hash) ==
    LET returned(r) ==
            /\ fs' = r.fs
            /\ last' = [op |-> "checkout", ok |-> r.ok, err |-> r.err, hash |-> hash]
    IN  /\ steps < MaxRepoOps
        /\ returned(checkout(fs, umask, hash))
        /\ steps' = steps + 1
        /\ UNCHANGED <<writers, umask, ledger, seen, pk, cl, net>>

NextRepo ==
    \/ CmdInit
    \/ \E path \in {p \in WorkFiles(fs, <<>>) : IsFile(fs, p)} : CmdHashObject(path)
    \/ \E order \in EnumerationOrders : CmdWriteTree(order)
    \/ \E tree_hash \in SeenHexes("tree") \cup {hex_encode(ZeroHash)},
          parent \in ParentArgs, message \in Messages, now \in Clock :
           CmdCommitTree(tree_hash, parent, message, now)
    \/ \E tree_hash \in SeenHexes("tree"), target_path \in Targets :
           CallCheckoutTree(tree_hash, target_path)
    \/ \E hash \in SeenHexes("commit") : CallCheckout(hash)

SpecRepo == InitRepo /\ [][NextRepo]_vars

\* C7: checking out the tree built from a directory into an empty target
\* directory puts every regular file of the directory, nested ones too, at
\* the same relative path under the target, with the same content and the
\* same permission bits.
C7_CheckoutReproduces ==
    (last.op = "checkout-tree" /\ last.built /\ last.target_empty) =>
        /\ last.ok
        /\ \A p \in DOMAIN last.source :
             last.source[p].kind = "file" =>
                 /\ IsFile(fs, last.target_path \o p)
                 /\ fs[last.target_path \o p].content = last.source[p].content
                 /\ fs[last.target_path \o p].mode % \o10000
                        = last.source[p].mode % \o10000

\* C8: in a repository created by init, commit succeeds and leaves the hex
\* of the new commit and a newline in .git/refs/heads/master, the ref the
\* symbolic HEAD names.
C8_CommitAdvancesBranch ==
    (last.op = "commit-tree" /\ last.args_ok /\ last.initialised) =>
        /\ last.ok
        /\ IsFile(fs, MasterRef)
        /\ fs[MasterRef].content = hex_encode(last.hash) \o <<10>>
        /\ Object_from_hash(fs, hex_encode(last.hash)).ok

\* the names a directory holds for a tree: all but the .git directory
TreeNames(f, directory) ==
    {n \in Children(f, directory) : ~(IsDir(f, Append(directory, n)) /\ n = DotGit)}
\* the stored tree lists exactly the names of the directory, each after all
\* the names that are smaller byte strings
ListedAscending(f, hash, directory) ==
    LET ascending(t) ==
            /\ t.ok
            /\ t.variant = "Tree"
            /\ Len(t.tree) = Cardinality(TreeNames(f, directory))
            /\ {t.tree[i].name : i \in 1..Len(t.tree)} = TreeNames(f, directory)
            /\ \A i \in 1..Len(t.tree) : \A j \in 1..Len(t.tree) :
                   i < j => BytesLess(t.tree[i].name, t.tree[j].name)
    IN  ascending(LoadParsed(f, hex_encode(hash)))

\* C11: the tree write-tree stores lists the entries of the directory in
\* ascending byte order of their names, in whatever order the file system
\* enumerated them, and the same directory gives the same tree hash under
\* every enumeration order.
C11_TreeEntriesSorted ==
    (last.op = "write-tree" /\ last.ok) =>
        /\ ListedAscending(fs, last.hash, <<>>)
        /\ \A order \in EnumerationOrders :
               LET same(r) == r.ok /\ r.hash = last.hash
               IN  same(write_tree(fs, umask, <<>>, order))
\* a directory of b, a and c, enumerated in that order, was written
C11_Witness ==
    /\ last.op = "write-tree"
    /\ last.ok
    /\ last.order = "pairs-swapped"
    /\ {NameA, NameB, NameC} \subseteq TreeNames(fs, <<>>)
    /\ read_dir(fs, <<>>, last.order) # sort_by_key(read_dir(fs, <<>>, last.order))

\* C12: init in a directory that already holds an initialised repository
\* fails, and HEAD, the object store, the refs and every other file are as
\* they were before the call.
C12_InitKeepsExistingRepository ==
    [][(last'.op = "init" /\ steps' = steps + 1 /\ HoldsRepository(fs, <<>>)) =>
           (~last'.ok /\ fs' = fs)]_vars
\* init was run on a repository with an object in its store
C12_Witness ==
    /\ last.op = "init"
    /\ last.had_repository
    /\ HoldsRepository(fs, <<>>)
    /\ \E p \in DOMAIN fs : Len(p) > 2 /\ p[1] = DotGit /\ p[2] = ObjectsName

\* forty characters, each a hexadecimal digit
WellFormedHash(hash) ==
    /\ Len(hash) = HASH_HEX_SIZE
    /\ \A i \in 1..Len(hash) :
           hash[i] \in (48..57) \cup (97..102) \cup (65..70)
\* the stored file of the hash inflates to bytes without a NUL
StoredWithoutNul(f, hash) ==
    LET without(decoded) == decoded.ok /\ Position(decoded.data, 0) = 0
    IN  /\ IsFile(f, object_path(hash).path)
        /\ without(ZlibDecode(f[object_path(hash).path].content))

\* C13: a load leaves the file system as it was, and fails with InvalidInput
\* for every string that is not forty hexadecimal characters, with NotFound
\* for a well-formed hash that has no stored object, and with Corrupt for
\* stored bytes that hold no NUL.
C13_LoadValidates ==
    [][(last'.op = "load" /\ steps' = steps + 1) =>
           /\ fs' = fs
           /\ ~WellFormedHash(last'.hash) =>
                  (~last'.ok /\ ErrorKind(last'.err) = "InvalidInput")
           /\ (WellFormedHash(last'.hash) /\ ~IsFile(fs, object_path(last'.hash).path)) =>
                  (~last'.ok /\ ErrorKind(last'.err) = "NotFound")
           /\ (WellFormedHash(last'.hash) /\ StoredWithoutNul(fs, last'.hash)) =>
                  (~last'.ok /\ ErrorKind(last'.err) = "Corrupt")]_vars

----------------------------------------------------------------------------
(* The smart-HTTP client (src/src/git/remote.rs) *)

LENGTH_SIZE == 4

\* "info/refs?service=git-upload-pack"
InfoRefsPath ==
    <<105, 110, 102, 111, 47, 114, 101, 102, 115, 63, 115, 101, 114, 118,
      105, 99, 101, 61, 103, 105, 116, 45, 117, 112, 108, 111, 97, 100, 45,
      112, 97, 99, 107>>
\* "git-upload-pack"
UploadPackPath ==
    <<103, 105, 116, 45, 117, 112, 108, 111, 97, 100, 45, 112, 97, 99, 107>>
\* "application/x-git-upload-pack-advertisement"
AdvertisementType ==
    <<97, 112, 112, 108, 105, 99, 97, 116, 105, 111, 110, 47, 120, 45, 103,
      105, 116, 45, 117, 112, 108, 111, 97, 100, 45, 112, 97, 99, 107, 45,
      97, 100, 118, 101, 114, 116, 105, 115, 101, 109, 101, 110, 116>>
\* "application/x-git-upload-pack-request"
RequestType ==
    <<97, 112, 112, 108, 105, 99, 97, 116, 105, 111, 110, 47, 120, 45, 103,
      105, 116, 45, 117, 112, 108, 111, 97, 100, 45, 112, 97, 99, 107, 45,
      114, 101, 113, 117, 101, 115, 116>>
\* "# service=git-upload-pack"
ServiceLine ==
    <<35, 32, 115, 101, 114, 118, 105, 99, 101, 61, 103, 105, 116, 45, 117,
      112, 108, 111, 97, 100, 45, 112, 97, 99, 107>>
\* "allow-tip-sha1-in-want"
AllowTip ==
    <<97, 108, 108, 111, 119, 45, 116, 105, 112, 45, 115, 104, 97, 49, 45,
      105, 110, 45, 119, 97, 110, 116>>
\* "allow-reachable-sha1-in-want"
AllowReachable ==
    <<97, 108, 108, 111, 119, 45, 114, 101, 97, 99, 104, 97, 98, 108, 101,
      45, 115, 104, 97, 49, 45, 105, 110, 45, 119, 97, 110, 116>>
\* "want "
WantPrefix ==
    <<119, 97, 110, 116, 32>>
\* " multi_ack\n"
MultiAckSuffix ==
    <<32, 109, 117, 108, 116, 105, 95, 97, 99, 107, 10>>
\* "0000"
FlushLine ==
    <<48, 48, 48, 48>>
\* "0009done\n"
DoneLine ==
    <<48, 48, 48, 57, 100, 111, 110, 101, 10>>

\* str::lines: the lines of a text without their line endings; a final line
\* ending yields no empty last line
RECURSIVE lines(_)
lines(s) ==
    LET strip(line) == IF line # <<>> /\ Last(line) = 13 THEN Front(line) ELSE line
        nl == Position(s, 10)
    IN  IF s = <<>> THEN <<>>
        ELSE IF nl = 0 THEN <<s>>
        ELSE <<strip(Take(s, nl - 1))>> \o lines(Drop(s, nl))

\* parse_pkt_line
parse_pkt_line(data) ==
    LET failed(e) == [ok |-> FALSE, err |-> e, line |-> <<>>]
        checked(expected_length) ==
            IF ~expected_length.ok THEN failed("invalid digit found in string")
            ELSE IF /\ Len(data) + 1 # expected_length.value
                    /\ (expected_length.value = 0 /\ Len(data) # LENGTH_SIZE)
            THEN failed("Wrong encoded PKT length")
            ELSE [ok |-> TRUE, err |-> "", line |-> Drop(data, 4)]
    IN  IF Len(data) < 4 THEN failed("Bad PKT length")
        ELSE checked(from_str_radix(Take(data, 4), 16))

\* discover_references: the map over the ref lines, i counting from 0,
\* collected up to the first error
RECURSIVE ref_lines(_, _, _)
ref_lines(ps, i, refs) ==
    LET failed(e) == [ok |-> FALSE, err |-> e, refs |-> <<>>]
        split_once(text, at) ==
            IF at = 0 THEN failed("Ref line in wrong format")
            ELSE ref_lines(Tail(ps), i + 1,
                           Append(refs, [hash |-> Take(text, at - 1),
                                         name |-> Drop(text, at)]))
        parsed(pkt) ==
            IF ~pkt.ok THEN failed(pkt.err) ELSE split_once(pkt.line, Position(pkt.line, 32))
    IN  IF ps = <<>> THEN [ok |-> TRUE, err |-> "", refs |-> refs]
        ELSE IF i = 0 /\ Len(ps[1]) < 4 THEN failed("First ref line in wrong format")
        ELSE parsed(parse_pkt_line(IF i = 0 THEN Drop(ps[1], 4) ELSE ps[1]))

capabilities_supported_always(capabilities) == TRUE
\* discover_references: the test of the capabilities
capabilities_supported(capabilities) ==
    Contains(capabilities, AllowTip) \/ Contains(capabilities, AllowReachable)

\* discover_references, of the response to its GET request; a ref is
\* [hash, name]
discover_references(response) ==
    LET failed(e) == [ok |-> FALSE, err |-> e, refs |-> <<>>]
        with_capabilities(refs, capabilities_start) ==
            IF capabilities_start = 0
            THEN failed("Discovery response without capabilities")
            ELSE IF ~capabilities_supported(Drop(refs[1].name, capabilities_start - 1))
            THEN failed("Missing git server capabilities")
            ELSE [ok |-> TRUE, err |-> "",
                  refs |-> [refs EXCEPT ![1].name = Take(refs[1].name,
                                                        capabilities_start - 1)]]
        with_refs(collected) ==
            IF ~collected.ok THEN failed(collected.err)
            ELSE IF collected.refs = <<>>
            THEN failed("Discovery response without capabilities line")
            ELSE with_capabilities(collected.refs, Position(collected.refs[1].name, 0))
        with_last_line(pkt_lines, last_line) ==
            IF ~last_line.ok THEN failed(last_line.err)
            ELSE IF last_line.line # <<>> THEN failed("Unexpected last line")
            ELSE with_refs(ref_lines(Front(pkt_lines), 0, <<>>))
        with_first_line(pkt_lines, first_line) ==
            IF ~first_line.ok THEN failed(first_line.err)
            ELSE IF first_line.line # ServiceLine
            THEN failed("Unexpected first discovery response line")
            ELSE IF pkt_lines = <<>>
            THEN failed("Discovery response with no terminator line")
            ELSE with_last_line(pkt_lines, parse_pkt_line(Last(pkt_lines)))
        with_content(pkt_lines) ==
            IF pkt_lines = <<>> THEN failed("Empty discovery response")
            ELSE with_first_line(Tail(pkt_lines), parse_pkt_line(pkt_lines[1]))
    IN  IF ~response.reachable THEN failed("transport")
        ELSE IF response.status # 200 /\ response.status # 304
        THEN failed("Failed to discover references: unexpected status")
        ELSE IF response.content_type # <<>>
                /\ response.content_type[1] # AdvertisementType
        THEN failed("Wrong response content type")
        ELSE with_content(lines(response.body))

\* fetch_pack: the pkt-line of ref number i, counting from 0
want_line_suffix_on_all(i, sha) ==
    LET want == WantPrefix \o sha \o MultiAckSuffix
    IN  Hex4(Len(want) + LENGTH_SIZE) \o want
want_line(i, sha) ==
    LET want == WantPrefix \o sha \o (IF i = 0 THEN MultiAckSuffix ELSE <<10>>)
    IN  Hex4(Len(want) + LENGTH_SIZE) \o want

\* fetch_pack: the body of the request
fetch_request(refs) ==
    Concat([i \in 1..Len(refs) |-> want_line(i - 1, refs[i].hash)])
        \o FlushLine \o DoneLine

\* fetch_pack, of the body of the response to its POST request
fetch_pack(body) ==
    IF Len(body) < 8 THEN [ok |-> FALSE, err |-> "Unexpected fetch response", pack |-> <<>>]
    ELSE [ok |-> TRUE, err |-> "", pack |-> Drop(body, 8)]

\* the URL the requests are joined to: the url argument, ending with '/'
remote_url(url) == IF url # <<>> /\ Last(url) = 47 THEN url ELSE Append(url, 47)

----------------------------------------------------------------------------
(* Inputs of the clone specification: what the server answers *)

MaxAdvertisedRefs == 2  \* refs of a generated advertisement

\* "http://h/r"
UrlRepo ==
    <<104, 116, 116, 112, 58, 47, 47, 104, 47, 114>>
\* "refs/heads/master"
RefMaster ==
    <<114, 101, 102, 115, 47, 104, 101, 97, 100, 115, 47, 109, 97, 115, 116,
      101, 114>>
\* "multi_ack"
MultiAck ==
    <<109, 117, 108, 116, 105, 95, 97, 99, 107>>
\* "0008NAK\n"
NakLine ==
    <<48, 48, 48, 56, 78, 65, 75, 10>>
\* "text/plain"
TextPlain ==
    <<116, 101, 120, 116, 47, 112, 108, 97, 105, 110>>

Urls == {UrlRepo, Append(UrlRepo, 47)}

\* the repository the server holds: a commit of a tree with hello.txt
ServedBlob == Object_new(KindBlob, World)
ServedTree ==
    Object_new(KindTree, ToOctal(S_IFREG + \o644) \o <<32>> \o NameHello \o <<0>>
                           \o Object_hash(ServedBlob))
ServedCommit ==
    Object_new(KindCommit, CommitContent(Object_hash(ServedTree), ZeroHash, <<109>>, 0))
ServedHead == hex_encode(Object_hash(ServedCommit))
ServedPack ==
    MakePack(<<ConcreteEntry(IdCommit, ServedCommit.content),
               ConcreteEntry(IdTree, ServedTree.content),
               ConcreteEntry(IdBlob, ServedBlob.content)>>)

PktLine(payload) == Hex4(Len(payload) + LENGTH_SIZE) \o payload

\* the advertisement of refs, the first ref line carrying the capability
\* strings of caps (<<>> for a line without the NUL)
Advertisement(refs, caps) ==
    PktLine(Append(ServiceLine, 10)) \o FlushLine
      \o Concat([i \in 1..Len(refs) |->
                   PktLine(refs[i].hash \o <<32>> \o refs[i].name
                             \o (IF i = 1 /\ caps # <<>> THEN <<0>> \o caps[1] ELSE <<>>)
                             \o <<10>>)])
      \o FlushLine

\* the name of advertised ref number i: HEAD, refs/heads/master, then
\* refs/heads/b, refs/heads/c, ...
RefName(i) ==
    IF i = 1 THEN HeadName
    ELSE IF i = 2 THEN RefMaster
    ELSE SubSeq(RefMaster, 1, 11) \o <<95 + i>>
\* the first ref is the served commit, the others are commits of their own
RefHash(i) == IF i = 1 THEN ServedHead ELSE hex_encode(Sha1(<<i>>))
AdvertisedRefs ==
    { [i \in 1..n |-> [hash |-> RefHash(i), name |-> RefName(i)]] :
        n \in 1..MaxAdvertisedRefs }

CapabilityChoices ==
    { <<>>, <<<<>>>>, <<MultiAck>>, <<MultiAck \o <<32>> \o AllowTip>>,
      <<AllowReachable>> }

Response(status, content_type, body) ==
    [reachable |-> TRUE, status |-> status, content_type |-> content_type, body |-> body]

\* responses whose body is a well-framed advertisement of at least one ref
FramedResponses ==
    { Response(status, content_type, Advertisement(refs, caps)) :
        status \in {200, 304, 404},
        content_type \in {<<>>, <<AdvertisementType>>, <<TextPlain>>},
        refs \in AdvertisedRefs, caps \in CapabilityChoices }

BrokenResponses ==
    { NoResponse,
      Response(200, <<AdvertisementType>>, <<>>),
      Response(200, <<AdvertisementType>>, Advertisement(<<>>, <<>>)),
      Response(200, <<AdvertisementType>>, PktLine(Append(ServiceLine, 10))),
      Response(200, <<AdvertisementType>>, FlushLine \o <<10>> \o FlushLine),
      Response(200, <<AdvertisementType>>,
               PktLine(Append(ServiceLine, 10)) \o FlushLine
                 \o PktLine(ServedHead \o <<10>>) \o FlushLine) }

DiscoveryResponses == FramedResponses \cup BrokenResponses

FetchBodies ==
    { NakLine \o ServedPack,
      NakLine \o MakePack(<<EntryBlob, EntryRefToBlob>>),
      NakLine \o FlipByte(ServedPack, 13),
      NakLine \o MakePack(<<EntryBlob, OfsDeltaEntry(0, DeltaGood)>>),
      NakLine,
      Take(NakLine, 4) }

Initialised == init(RootOnly, 0, <<>>).fs
ClonePaths == {<<>>, <<NameOut>>}
CloneDirs == {RootOnly, Put(RootOnly, <<NameOut>>, DirNode), Initialised}

----------------------------------------------------------------------------
(* The clone command (src/src/main.rs) *)

InitClone ==
    /\ fs \in CloneDirs
    /\ umask \in Umasks
    /\ last = NoCall
    /\ ledger = [k \in {} |-> 0]
    /\ steps = 0
    /\ seen = {}
    /\ pk = NoCall
    /\ cl = Idle
    /\ net = <<>>
    /\ writers = NoWriters

Get(url) == [method |-> "GET", url |-> url, content_type |-> <<>>, body |-> <<>>]
Post(url, content_type, body) ==
    [method |-> "POST", url |-> url, content_type |-> content_type, body |-> body]

\* Command::Clone with url and path: the GET request of discover_references
\* is sent and answered by response
CloneDiscover(url, path, response) ==
    LET returned(r) ==
            cl' = [cl EXCEPT !.pc = IF r.ok THEN "discovered" ELSE "failed",
                             !.at = "discover", !.url = url, !.path = path,
                             !.response = response, !.refs = r.refs, !.err = r.err]
    IN  /\ cl.pc = "idle"
        /\ net' = Append(net, Get(remote_url(url) \o InfoRefsPath))
        /\ returned(discover_references(response))
        /\ UNCHANGED <<writers, fs, umask, last, ledger, steps, seen, pk>>

\* the POST request of fetch_pack is sent and answered with body
CloneFetch(body) ==
    LET returned(r) ==
            cl' = [cl EXCEPT !.pc = IF r.ok THEN "fetched" ELSE "failed",
                             !.at = "fetch", !.pack = r.pack, !.err = r.err]
    IN  /\ cl.pc = "discovered"
        /\ net' = Append(net, Post(remote_url(cl.url) \o UploadPackPath, RequestType,
                                   fetch_request(cl.refs)))
        /\ returned(fetch_pack(body))
        /\ UNCHANGED <<writers, fs, umask, last, ledger, steps, seen, pk>>

\* git::pack::parse(pack)?
CloneParse ==
    LET returned(r) ==
            cl' = [cl EXCEPT !.pc = CASE r.status = "ok" -> "parsed"
                                      [] r.status = "err" -> "failed"
                                      [] OTHER -> "panicked",
                             !.at = "parse", !.objects = r.objects, !.err = r.err]
    IN  /\ cl.pc = "fetched"
        /\ returned(pack_parse(cl.pack))
        /\ UNCHANGED <<writers, fs, umask, last, ledger, steps, seen, pk, net>>

\* git::init(&command.path)?; todo!()
CloneInit ==
    LET returned(r) ==
            /\ fs' = r.fs
            /\ cl' = [cl EXCEPT !.pc = IF r.ok THEN "panicked" ELSE "failed",
                                !.at = IF r.ok THEN "todo" ELSE "init",
                                !.err = IF r.ok THEN "" ELSE "io"]
    IN  /\ cl.pc = "parsed"
        /\ returned(init(fs, umask, cl.path))
        /\ UNCHANGED <<writers, umask, last, ledger, steps, seen, pk, net>>

NextClone ==
    \/ \E url \in Urls, path \in ClonePaths, response \in DiscoveryResponses :
           CloneDiscover(url, path, response)
    \/ \E body \in FetchBodies : CloneFetch(body)
    \/ CloneParse
    \/ CloneInit

SpecClone == InitClone /\ [][NextClone]_vars

\* the clone has ended: it returned an error or it panicked
CloneEnded == cl.pc \in {"done", "failed", "panicked"}

\* C9: a clone whose discovery, fetch and decode succeeded, into a path
\* that can be initialised, completes with every decoded object loadable
\* from the object store, HEAD holding the advertised hash and the files of
\* the HEAD commit's tree in the working tree.
C9_CloneCompletes ==
    (CloneEnded /\ cl.at \in {"todo", "done"}) =>
        /\ cl.pc = "done"
        /\ \A i \in 1..Len(cl.objects) :
             Object_from_hash(fs, hex_encode(Object_hash(cl.objects[i]))).ok
        /\ IsFile(fs, cl.path \o <<DotGit, HeadName>>)
        /\ Contains(fs[cl.path \o <<DotGit, HeadName>>].content, cl.refs[1].hash)
        /\ (cl.pack = ServedPack =>
               /\ IsFile(fs, Append(cl.path, NameHello))
               /\ fs[Append(cl.path, NameHello)].content = World)

\* the capability string of an advertisement: what follows the first NUL
\* up to the end of its line, nothing when there is no NUL
AdvertisedCapabilities(body) ==
    LET nul == Position(body, 0)
        rest == Drop(body, nul)
        nl == Position(rest, 10)
    IN  IF nul = 0 THEN <<>> ELSE IF nl = 0 THEN rest ELSE Take(rest, nl - 1)

LacksFetchCapability(body) ==
    /\ ~Contains(AdvertisedCapabilities(body), AllowTip)
    /\ ~Contains(AdvertisedCapabilities(body), AllowReachable)

RECURSIVE ReadPktLines(_, _)
ReadPktLines(body, read) ==
    LET failed == [ok |-> FALSE, lines |-> <<>>]
        sized(n) ==
            IF n = 0
            THEN ReadPktLines(Drop(body, 4),
                              Append(read, [flush |-> TRUE, payload |-> <<>>]))
            ELSE IF n < 4 \/ n > Len(body) THEN failed
            ELSE ReadPktLines(Drop(body, n),
                              Append(read, [flush |-> FALSE,
                                            payload |-> SubSeq(body, 5, n)]))
    IN  IF body = <<>> THEN [ok |-> TRUE, lines |-> read]
        ELSE IF Len(body) < 4 THEN failed
        ELSE IF \E i \in 1..4 : body[i] \notin (48..57) \cup (97..102) THEN failed
        ELSE sized(DigitsValue(SubSeq(body, 1, 4), 16, 0))

\* C15: the body of the fetch request is, for each discovered ref in order,
\* one pkt-line "want <hash>\n", the first with " multi_ack" before the
\* newline and no other, each with a four-digit hexadecimal length that
\* counts the prefix and the payload; then "0000"; then "0009done\n".
C15_FetchRequestBody ==
    \A k \in 1..Len(net) :
        net[k].method = "POST" =>
            LET n == Len(cl.refs)
                framed(r) ==
                    /\ r.ok
                    /\ Len(r.lines) = n + 2
                    /\ \A i \in 1..n :
                           /\ ~r.lines[i].flush
                           /\ r.lines[i].payload =
                                  <<119, 97, 110, 116, 32>> \o cl.refs[i].hash
                                     \o (IF i = 1
                                         THEN <<32, 109, 117, 108, 116, 105, 95, 97,
                                                99, 107, 10>>
                                         ELSE <<10>>)
                    /\ r.lines[n + 1].flush
                    /\ r.lines[n + 2] = [flush |-> FALSE,
                                         payload |-> <<100, 111, 110, 101, 10>>]
                    /\ SubSeq(net[k].body, Len(net[k].body) - 12, Len(net[k].body))
                           = <<48, 48, 48, 48, 48, 48, 48, 57, 100, 111, 110, 101, 10>>
            IN  framed(ReadPktLines(net[k].body, <<>>))
\* a request for two refs with different hashes was sent
C15_Witness ==
    /\ \E k \in 1..Len(net) : net[k].method = "POST"
    /\ Len(cl.refs) = 2
    /\ cl.refs[1].hash # cl.refs[2].hash

\* the number a byte string spells most-significant group first, one added
\* to the accumulated value at every continuation byte
RECURSIVE MsbFirstBiased(_, _)
MsbFirstBiased(bytes, acc) ==
    IF bytes = <<>> THEN acc
    ELSE MsbFirstBiased(Tail(bytes), (acc + 1) * 128 + (bytes[1] % 128))

\* C16: the distance parse decodes for an offset-delta entry is the number
\* its bytes spell most-significant group first with the bias, every
\* continuation byte adding one before the shift by seven bits.
C16_OffsetDistanceMsbFirst ==
    pk.op = "parse" =>
        \A i \in 1..Len(pk.log) :
            (pk.log[i].id = IdOffsetDelta /\ pk.log[i].offset_bytes # <<>>) =>
                pk.log[i].offset
                    = MsbFirstBiased(Tail(pk.log[i].offset_bytes),
                                     pk.log[i].offset_bytes[1] % 128)

\* the bytes a copy instruction selects, and the number they spell: the
\* byte of bit k, if selected, is worth its value shifted left by 8k
Selected(mask, width) == {k \in 0..(width - 1) : (mask \div Pow2(k)) % 2 = 1}
Rank(mask, k) == Cardinality(Selected(mask, k + 1))
RECURSIVE SelectedSum(_, _, _, _)
SelectedSum(mask, width, bytes, k) ==
    IF k = width THEN 0
    ELSE (IF k \in Selected(mask, width) THEN bytes[Rank(mask, k)] * Pow2(8 * k) ELSE 0)
             + SelectedSum(mask, width, bytes, k + 1)

\* C17: for a copy instruction h, bits 0-3 of h select the offset bytes and
\* bits 4-6 the size bytes; exactly the selected bytes are taken from the
\* stream, in order, the byte of bit k worth its value shifted left by 8k
\* and an absent byte worth zero; the bytes of the base from offset to
\* offset + size are appended to the output.
C17_CopyInstruction ==
    (pk.op = "patch" /\ pk.delta # <<>> /\ pk.delta[1] >= 128) =>
        LET h == pk.delta[1]
            n_o == Cardinality(Selected(h, 4))
            used == 1 + n_o + Cardinality(Selected(h \div 16, 3))
            offset == SelectedSum(h, 4, SubSeq(pk.delta, 2, 1 + n_o), 0)
            size == SelectedSum(h \div 16, 3, SubSeq(pk.delta, 2 + n_o, used), 0)
        IN  Len(pk.delta) >= used =>
               /\ pk.printed # <<>>
               /\ pk.printed[1] = CopyLine(offset, size)
               /\ offset + size <= Len(pk.object) =>
                      /\ Len(pk.delta) = used =>
                             /\ pk.ok <=> size = pk.target_size
                             /\ pk.ok => pk.content
                                            = SubSeq(pk.object, offset + 1, offset + size)
                      /\ (Len(pk.delta) > used /\ pk.delta[used + 1] < 128) =>
                             /\ Len(pk.printed) >= 2
                             /\ pk.printed[2] = InsertLine(pk.delta[used + 1],
                                                           Len(pk.delta) - used - 1)
                      /\ pk.ok => Take(pk.content, size)
                                     = SubSeq(pk.object, offset + 1, offset + size)
\* a copy from offset 256, spelt by the second offset byte alone, succeeded
C17_Witness ==
    /\ pk.op = "patch"
    /\ pk.ok
    /\ pk.delta # <<>>
    /\ Selected(pk.delta[1], 4) = {1}
    /\ pk.printed[1] = CopyLine(256, 2)
    /\ pk.content = <<1, 2>>

\* C18: an instruction byte of zero is reserved: a delta stream in which
\* patch_content meets one is rejected as corrupt, and is not taken as an
\* insert of no bytes.
C18_ZeroInstructionRejected ==
    pk.op = "patch" =>
        \A i \in 1..Len(pk.printed) :
            (pk.printed[i].op = "insert" /\ pk.printed[i].size = 0) =>
                (~pk.ok /\ ErrorKind(pk.err) = "Corrupt")

\* the place in the arena of the base of the delta entry at place i, and of
\* the concrete entry its chain of bases starts from
BaseIndex(i) ==
    IF pk.log[i].id = IdOffsetDelta THEN i - pk.log[i].offset
    ELSE CHOOSE j \in 1..(i - 1) : Object_hash(pk.arena[j]) = pk.log[i].reference
RECURSIVE RootIndex(_)
RootIndex(i) ==
    IF pk.log[i].id \in {IdOffsetDelta, IdReferenceDelta} THEN RootIndex(BaseIndex(i))
    ELSE i

\* C19: every object parse decodes has one of the kinds commit, tree, blob
\* and tag; an object made by a delta has the kind of its base, and so the
\* kind of the concrete entry its chain of bases starts from.
C19_DeltaKeepsKind ==
    pk.op = "parse" =>
        \A i \in 1..Len(pk.arena) :
            /\ HeaderKind(pk.arena[i].header) \in Kinds
            /\ pk.log[i].id \in {IdOffsetDelta, IdReferenceDelta} =>
                   /\ BaseIndex(i) \in 1..(i - 1)
                   /\ HeaderKind(pk.arena[i].header)
                          = HeaderKind(pk.arena[BaseIndex(i)].header)
                   /\ HeaderKind(pk.arena[i].header)
                          = ObjectTypeId_to_string(pk.log[RootIndex(i)].id)
\* a delta on the result of a delta on a tree was decoded
C19_Witness ==
    /\ pk.op = "parse"
    /\ pk.status = "ok"
    /\ Len(pk.arena) = 3
    /\ pk.log[1].id = IdTree
    /\ pk.log[2].id = IdOffsetDelta
    /\ pk.log[3].id = IdReferenceDelta
    /\ BaseIndex(3) = 2
    /\ RootIndex(3) = 1

\* the bytes of an entry header that starts the byte string: all up to and
\* with the first byte whose top bit is clear
HeaderLength(bytes) ==
    CHOOSE n \in 1..Len(bytes) :
        /\ bytes[n] < 128
        /\ \A j \in 1..(n - 1) : bytes[j] >= 128
\* the bytes of the buffer from the header of entry i to the trailing digest
FromEntry(i) ==
    SubSeq(pk.buffer, Len(pk.buffer) - HASH_SIZE - pk.log[i].left + 1,
           Len(pk.buffer) - HASH_SIZE)

\* C20: every concrete entry parse accepts yields content as long as the
\* size its header declares, and the header of the entry after it is read
\* right after the compressed bytes the inflater consumed.
C20_ConcreteSizeChecked ==
    pk.op = "parse" =>
        \A i \in 1..Len(pk.arena) :
            pk.log[i].id \in {IdCommit, IdTree, IdBlob, IdTag} =>
                /\ Len(pk.arena[i].content) = pk.log[i].size
                /\ i < Len(pk.log) =>
                       pk.log[i].left - pk.log[i + 1].left
                           = HeaderLength(FromEntry(i))
                               + ZlibDecode(Drop(FromEntry(i),
                                                 HeaderLength(FromEntry(i)))).total_in

----------------------------------------------------------------------------
(* parse_pkt_line applied to lines *)

MaxPktPayload == 8      \* longest payload of a generated line

\* lines with a prefix of four hexadecimal digits, the declared length right
\* or wrong, and lines whose prefix is short or no number
PktLines ==
    { Hex4(declared) \o payload :
        declared \in 0..(MaxPktPayload + LENGTH_SIZE + 2),
        payload \in SeqsUpTo({97}, MaxPktPayload) }
      \cup { <<>>, <<48, 48, 48>>, <<48, 48, 48, 120, 97>>, <<43, 48, 48, 54, 97>> }

\* parse_pkt_line(data)
ParsePktLine(data) ==
    /\ last = NoCall
    /\ last' = [op |-> "parse_pkt_line", data |-> data] @@ parse_pkt_line(data)
    /\ UNCHANGED <<writers, fs, umask, ledger, steps, seen, pk, cl, net>>

NextPkt == \E data \in PktLines : ParsePktLine(data)

SpecPkt == InitPack /\ [][NextPkt]_vars

\* C21: a line parse_pkt_line accepts starts with four hexadecimal digits
\* that spell its length, prefix included, plus one for the newline that
\* was stripped; the flush line 0000 is the only other line accepted.
C21_PktLengthChecked ==
    (last.op = "parse_pkt_line" /\ last.ok) =>
        /\ Len(last.data) >= LENGTH_SIZE
        /\ \A i \in 1..LENGTH_SIZE :
               last.data[i] \in (48..57) \cup (97..102) \cup (65..70)
        /\ \/ DigitsValue(SubSeq(last.data, 1, LENGTH_SIZE), 16, 0) = Len(last.data) + 1
           \/ last.data = <<48, 48, 48, 48>>

----------------------------------------------------------------------------
(* store_references (src/src/git.rs) *)

\* "ref: "
RefPrefix == <<114, 101, 102, 58, 32>>

\* the components Path::join adds for a relative path: its parts between
\* the '/' characters
RECURSIVE path_components(_)
path_components(s) ==
    LET cut(at) ==
            IF at = 0 THEN (IF s = <<>> THEN <<>> ELSE <<s>>)
            ELSE (IF at = 1 THEN <<>> ELSE <<Take(s, at - 1)>>)
                     \o path_components(Drop(s, at))
    IN  cut(Position(s, 47))

\* store_references: the loop over the refs after the first
RECURSIVE store_references_loop(_, _, _, _)
store_references_loop(f, um, head_hash, refs) ==
    LET failed(g) == [ok |-> FALSE, fs |-> g]
        ref_filepath(r) == <<DotGit>> \o path_components(r.name)
        with_file(wrote) ==
            IF ~wrote.ok THEN failed(wrote.fs)
            ELSE store_references_loop(wrote.fs, um, head_hash, Tail(refs))
        with_parent(r, made) ==
            IF ~made.ok THEN failed(made.fs)
            ELSE with_file(fs_write(made.fs, um, ref_filepath(r), r.hash \o <<10>>))
        with_head(r, head) ==
            IF ~head.ok THEN failed(head.fs)
            ELSE with_parent(r, IF Front(ref_filepath(r)) \in DOMAIN head.fs
                                THEN [ok |-> TRUE, fs |-> head.fs]
                                ELSE fs_create_dir_all(head.fs, Front(ref_filepath(r))))
    IN  IF refs = <<>> THEN [ok |-> TRUE, fs |-> f]
        ELSE with_head(refs[1],
                       IF refs[1].hash = head_hash
                       THEN fs_write(f, um, <<DotGit, HeadName>>,
                                     RefPrefix \o refs[1].name)
                       ELSE [ok |-> TRUE, fs |-> f])

\* store_references
store_references(f, um, refs) ==
    LET stored(head_hash, r) ==
            [ok |-> r.ok, err |-> IF r.ok THEN "" ELSE "io",
             head_hash |-> IF r.ok THEN head_hash ELSE <<>>, fs |-> r.fs]
    IN  IF refs = <<>>
        THEN [ok |-> FALSE, err |-> "No HEAD reference", head_hash |-> <<>>, fs |-> f]
        ELSE stored(refs[1].hash,
                    store_references_loop(f, um, refs[1].hash, Tail(refs)))

MaxStoredRefs == 3      \* refs of a list handed to store_references

\* "refs/tags/v"
RefTag == <<114, 101, 102, 115, 47, 116, 97, 103, 115, 47, 118>>
\* the lists of advertised refs: the first is HEAD or a branch
StoredRefPool ==
    { [hash |-> h, name |-> n] : h \in {RefHash(1), RefHash(2)},
                                 n \in {HeadName, RefMaster, RefTag} }
RefLists == SeqsUpTo(StoredRefPool, MaxStoredRefs)

InitRefs ==
    /\ fs \in {Initialised, WorkGit, RootOnly}
    /\ umask \in Umasks
    /\ last = NoCall
    /\ ledger = [k \in {} |-> 0]
    /\ steps = 0
    /\ seen = {}
    /\ pk = NoCall
    /\ cl = Idle
    /\ net = <<>>
    /\ writers = NoWriters

\* git::store_references(refs) in the directory of the repository
StoreReferences(refs) ==
    LET returned(r) ==
            /\ fs' = r.fs
            /\ last' = [op |-> "store_references", refs |-> refs, ok |-> r.ok,
                        err |-> r.err, head_hash |-> r.head_hash]
    IN  /\ last = NoCall
        /\ returned(store_references(fs, umask, refs))
        /\ UNCHANGED <<writers, umask, ledger, steps, seen, pk, cl, net>>

NextRefs == \E refs \in RefLists : StoreReferences(refs)

SpecRefs == InitRefs /\ [][NextRefs]_vars

\* the file of a ref holds the hash and a newline
RefFileHolds(f, name, hash) ==
    /\ IsFile(f, <<DotGit>> \o path_components(name))
    /\ f[<<DotGit>> \o path_components(name)].content = hash \o <<10>>
\* HEAD is the hash, or "ref: <path>\n" for a ref whose file holds the hash
HeadResolvesTo(f, refs, hash) ==
    /\ IsFile(f, <<DotGit, HeadName>>)
    /\ \/ f[<<DotGit, HeadName>>].content \in {hash, hash \o <<10>>}
       \/ \E i \in 1..Len(refs) :
             /\ f[<<DotGit, HeadName>>].content = RefPrefix \o refs[i].name \o <<10>>
             /\ RefFileHolds(f, refs[i].name, hash)

\* C22: after store_references has succeeded on a list of refs that is not
\* empty, every ref of the list but HEAD has its file, holding the hash and
\* a newline, and HEAD resolves to the hash of the first ref of the list.
C22_RefsStoredHeadResolves ==
    (last.op = "store_references" /\ last.ok /\ last.refs # <<>>) =>
        /\ \A i \in 1..Len(last.refs) :
               (/\ last.refs[i].name # HeadName
                /\ \A j \in (i + 1)..Len(last.refs) :
                       last.refs[j].name # last.refs[i].name) =>
                   RefFileHolds(fs, last.refs[i].name, last.refs[i].hash)
        /\ HeadResolvesTo(fs, last.refs, last.refs[1].hash)

\* the lines of a commit body with the given tree, time and message, with
\* or without a parent line
IsCommitBody(body, tree_hash, parent, message, now) ==
    LET stamp == <<32>> \o ToDecimal(now) \o <<32, 43, 48, 48, 48, 48>>
        ends_with(line, tail) ==
            Len(line) >= Len(tail)
                /\ SubSeq(line, Len(line) - Len(tail) + 1, Len(line)) = tail
        shaped(ls, at) ==
            /\ Len(ls) = at + 3
            /\ ls[1] = <<116, 114, 101, 101, 32>> \o tree_hash
            /\ parent.given => ls[2] = <<112, 97, 114, 101, 110, 116, 32>> \o parent.hash
            /\ IsPrefix(<<97, 117, 116, 104, 111, 114, 32>>, ls[at])
            /\ ends_with(ls[at], stamp)
            /\ IsPrefix(<<99, 111, 109, 109, 105, 116, 116, 101, 114, 32>>, ls[at + 1])
            /\ ends_with(ls[at + 1], stamp)
            /\ ls[at + 2] = <<>>
            /\ ls[at + 3] = message
    IN  shaped(lines(body), IF parent.given THEN 3 ELSE 2)

\* C23: commit-tree with a tree and with or without a parent stores a commit
\* whose body is the tree line, the parent line when and only when a parent
\* was given, the author and the committer line with the Unix time and
\* +0000, an empty line and the message.
C23_CommitBody ==
    (/\ last.op = "commit-tree"
     /\ parse_hash(last.tree_hash).ok
     /\ last.parent.given => parse_hash(last.parent.hash).ok) =>
        LET stored(loaded) ==
                /\ loaded.ok
                /\ HeaderKind(loaded.object.header) = KindCommit
                /\ IsCommitBody(loaded.object.content, last.tree_hash, last.parent,
                                last.message, last.now)
        IN  /\ Len(last.hash) = HASH_SIZE
            /\ stored(Object_from_hash(fs, hex_encode(last.hash)))

----------------------------------------------------------------------------
(* parse_object_header applied to byte strings *)

MaxHeaderLen == 3       \* bytes of a generated entry header

\* first bytes of every type id, with and without the continuation bit,
\* and following bytes with and without it
HeaderByteChoices == {5, 21, 80, 111, 127, 129, 149, 165, 181, 197, 255}
HeaderStrings == SeqsUpTo(HeaderByteChoices, MaxHeaderLen)

\* parse_object_header(parser)
ParseObjectHeader(bytes) ==
    /\ pk = NoCall
    /\ pk' = [op |-> "header", bytes |-> bytes] @@ parse_object_header(bytes)
    /\ UNCHANGED <<writers, fs, umask, last, ledger, steps, seen, cl, net>>

NextHeader == \E bytes \in HeaderStrings : ParseObjectHeader(bytes)

SpecHeader == InitPack /\ [][NextHeader]_vars

\* the bytes of a header: up to the first byte whose high bit is clear, or
\* all the bytes there are
HeaderBytesRead(bytes) ==
    IF \E k \in 1..Len(bytes) : bytes[k] < 128
    THEN CHOOSE k \in 1..Len(bytes) :
             bytes[k] < 128 /\ \A j \in 1..(k - 1) : bytes[j] >= 128
    ELSE Len(bytes)
\* the low seven bits of bytes k..n, the first at shift 4, the next at 11, ...
RECURSIVE GroupSum(_, _, _)
GroupSum(bytes, k, n) ==
    IF k > n THEN 0
    ELSE (bytes[k] % 128) * Pow2(4 + 7 * (k - 2)) + GroupSum(bytes, k + 1, n)

\* C24: the type id of an entry header is bits 4-6 of its first byte; the
\* size is bits 0-3 of the first byte plus the low seven bits of every
\* following byte read while the byte before it has its high bit set, at
\* shifts 4, 11, 18, ...; a type id other than 1, 2, 3, 4, 6, 7 fails as an
\* unsupported format.
C24_EntryHeader ==
    (pk.op = "header" /\ pk.bytes # <<>>) =>
        IF (pk.bytes[1] \div 16) % 8 \notin {1, 2, 3, 4, 6, 7}
        THEN ~pk.ok /\ ErrorKind(pk.err) = "UnsupportedFormat"
        ELSE /\ pk.ok
             /\ pk.id = (pk.bytes[1] \div 16) % 8
             /\ pk.size = (pk.bytes[1] % 16)
                             + GroupSum(pk.bytes, 2, HeaderBytesRead(pk.bytes))
             /\ pk.parser = Drop(pk.bytes, HeaderBytesRead(pk.bytes))
\* a header of three bytes, its third byte at shift 11, was read
C24_Witness ==
    /\ pk.op = "header"
    /\ pk.ok
    /\ Len(pk.bytes) = 3
    /\ HeaderBytesRead(pk.bytes) = 3
    /\ pk.bytes[3] # 0
    /\ pk.size >= Pow2(11)


----------------------------------------------------------------------------
(* parse returns for every buffer *)

\* the object count of the frame: the four bytes after signature and version
DeclaredObjects(buffer) ==
    U32(SubSeq(buffer, SIGNATURE_SIZE + 5, SIGNATURE_SIZE + 8))

\* C25: for every buffer parse ends in a returned value, Ok with exactly
\* the declared number of objects, pushed in the order of the stream, or
\* an Err; it never aborts on a read past the end of the buffer or on an
\* arena index out of range.
C25_ParseReturns ==
    pk.op = "parse" =>
        /\ pk.status \in {"ok", "err"}
        /\ pk.status = "ok" =>
               /\ Len(pk.objects) = DeclaredObjects(pk.buffer)
               /\ Len(pk.log) = Len(pk.objects)
               /\ \A i \in 1..Len(pk.log) : pk.log[i].at = i - 1

====
